---- MODULE Spec2Model ----
(***************************************************************************)
(* A model of the OpenPGP message ingestion pipeline of this repository:   *)
(*   - the packet sequencer and tree processor (mainproc.c, which the      *)
(*     repository stores in src/sm/qualified.c from line 361 on), and      *)
(*   - the armor filter (armor.c, stored in src/unnamed/part_000), and     *)
(*   - the list of qualified certificates (the head of qualified.c).       *)
(* Result codes are modelled by their names ("0" is success, "-1" is the   *)
(* EOF sentinel); a NULL pointer is the empty sequence.                    *)
(***************************************************************************)
EXTENDS Integers, Sequences, FiniteSets, TLC

VARIABLES
    opt,      \* the global options the sequencer reads
    c,        \* the sequencer context (CTX)
    pkts,     \* what parse_packet will return, call by call, until EOF
    pc,       \* "run" | "done" (do_proc_packets returned) | "exit" | "crash"
    rc,       \* the value do_proc_packets returned
    seen,     \* what parse_packet has returned so far (packets and errors)
    log,      \* the calls made to the external collaborators, in order
    trees,    \* the lists handed to proc_tree, in order
    afx,      \* the armor filter context (armor_filter_context_t), NULL if none
    chain,    \* the iobuf under the armor filter: bytes written, or bytes to read
    src,      \* the bytes the caller of the armor filter has to write
    calls,    \* the UNDERFLOW calls made, in order
    fed,      \* how many bytes of src have been written
    armored,  \* the armor kind (afx->what) chain was written under, -1 if none
    ql        \* the list of qualified certificates and its reader, NULL if none

seqvars == <<opt, c, pkts, pc, rc, seen, log, trees>>

armvars == <<afx, chain, src, calls, fed, armored>>

qlvars == <<ql>>

(***************************************************************************)
(* Bounds of the model.                                                    *)
(***************************************************************************)
MaxPkts == 3        \* longest packet stream of the general sequencer runs
MaxEncPkts == 3     \* longest packet stream of the encryption runs
MaxKeyPkts == 5     \* longest packet stream of the key-block runs
MaxSigPkts == 3     \* longest packet stream of the signature runs

NULL == <<>>

(***************************************************************************)
(* Packets.  A packet is what parse_packet delivers: its parse result rc,  *)
(* its type, the fields the sequencer reads, and the results the external  *)
(* collaborators will give when handed this packet (res, res2).  no is the *)
(* packet's position in the stream, stamped when it is parsed.             *)
(***************************************************************************)
KeyTypes == {"PKT_PUBLIC_KEY", "PKT_SECRET_KEY"}
SubkeyTypes == {"PKT_PUBLIC_SUBKEY", "PKT_SECRET_SUBKEY"}
PktTypes == KeyTypes \cup SubkeyTypes \cup
            {"PKT_USER_ID", "PKT_SIGNATURE", "PKT_ONEPASS_SIG", "PKT_PUBKEY_ENC",
             "PKT_SYMKEY_ENC", "PKT_ENCRYPTED", "PKT_PLAINTEXT", "PKT_COMPRESSED",
             "PKT_MARKER", "PKT_COMMENT"}

Pkt(type) == [rc |-> "0", pkttype |-> type, no |-> 0, digest_algo |-> 0,
              sig_class |-> 0, keyid |-> 0, pubkey_algo |-> 0, seskeylen |-> 0,
              res |-> "0", res2 |-> "0"]

RangeOf(s) == {s[i] : i \in 1..Len(s)}

SeqsUpTo(S, n) == UNION {[1..k -> S] : k \in 0..n}

(***************************************************************************)
(* Result codes and digest algorithms.                                     *)
(***************************************************************************)
G10ERR_UNEXPECTED == "G10ERR_UNEXPECTED"
G10ERR_INVALID_PACKET == "G10ERR_INVALID_PACKET"
G10ERR_INVALID_ARMOR == "G10ERR_INVALID_ARMOR"
G10ERR_BAD_SIGN == "G10ERR_BAD_SIGN"
G10ERR_NO_PUBKEY == "G10ERR_NO_PUBKEY"
G10ERR_PUBKEY_ALGO == "G10ERR_PUBKEY_ALGO"
G10ERR_DIGEST_ALGO == "G10ERR_DIGEST_ALGO"
G10ERR_SIG_CLASS == "G10ERR_SIG_CLASS"
G10ERR_NO_SECKEY == "G10ERR_NO_SECKEY"
G10ERR_CREATE_FILE == "G10ERR_CREATE_FILE"
G10ERR_GENERAL == "G10ERR_GENERAL"

DIGEST_ALGO_MD5 == 1
DIGEST_ALGO_SHA1 == 2
DIGEST_ALGO_RMD160 == 3
DIGEST_ALGO_TIGER == 6

check_digest_algo(algo) ==
    IF algo \in {DIGEST_ALGO_MD5, DIGEST_ALGO_SHA1, DIGEST_ALGO_RMD160, DIGEST_ALGO_TIGER}
    THEN "0" ELSE G10ERR_DIGEST_ALGO

(***************************************************************************)
(* The machine the sequencer's functions work on: the context c, the log   *)
(* of external calls, the lists handed to proc_tree, and halt: "" while    *)
(* the process runs, "exit" after g10_exit, "crash" after a fault.  Once   *)
(* the process has ended no later statement has any effect.                *)
(***************************************************************************)
Log(m, ev, no, arg) ==
    IF m.halt # "" THEN m
    ELSE [m EXCEPT !.log = Append(@, [ev |-> ev, no |-> no, arg |-> arg])]

write_status(m, code, no) == Log(m, "write_status", no, code)

md_open(algo) == <<[algos |-> (IF algo = 0 THEN {} ELSE {algo}), data |-> <<>>]>>

md_enable(md, algo) == <<[md[1] EXCEPT !.algos = @ \cup {algo}]>>

md_write(md, what) == <<[md[1] EXCEPT !.data = Append(@, what)]>>

free_md_filter_context(m) == IF m.halt # "" THEN m ELSE [m EXCEPT !.c.mfx = NULL]

new_kbnode(pkt) == pkt

add_kbnode(root, node) == Append(root, node)

find_next_kbnode(list, i, type) ==
    LET later == {j \in (i+1)..Len(list) : list[j].pkttype = type}
    IN IF later = {} THEN 0 ELSE CHOOSE j \in later : \A k \in later : j <= k

(***************************************************************************)
(* do_check_sig: [rc, m].                                                  *)
(***************************************************************************)
IsKeySigClass(sig_class) ==
    \/ sig_class - (sig_class % 4) = 16
    \/ sig_class = 24
    \/ sig_class = 32
    \/ sig_class = 48

do_check_sig(m, node) ==
    LET sig == node
        algo == sig.digest_algo
        md == IF m.c.mfx # NULL THEN m.c.mfx ELSE md_open(0)
    IN  IF algo = 0 THEN [rc |-> G10ERR_PUBKEY_ALGO, m |-> m]
        ELSE IF check_digest_algo(algo) # "0"
        THEN [rc |-> check_digest_algo(algo), m |-> m]
        ELSE IF sig.sig_class = 0 \/ sig.sig_class = 1
        THEN [rc |-> sig.res, m |-> Log(m, "signature_check", sig.no, md)]
        ELSE IF IsKeySigClass(sig.sig_class)
        THEN IF m.c.list[1].pkttype \in {"PKT_PUBLIC_KEY", "PKT_PUBLIC_SUBKEY"}
             THEN [rc |-> sig.res, m |-> Log(m, "check_key_signature", sig.no, m.c.list[1].no)]
             ELSE [rc |-> G10ERR_SIG_CLASS, m |-> m]
        ELSE [rc |-> G10ERR_SIG_CLASS, m |-> m]

(***************************************************************************)
(* check_sig_and_print: the status line of one signature, the trust check  *)
(* after a good one, and the exit in batch mode.                           *)
(***************************************************************************)
g10_exit(m) == IF m.halt # "" THEN m ELSE [m EXCEPT !.halt = "exit"]

\* rc = do_check_sig(c, node, NULL): the trace keeps the value returned
sig_checked(r, node) == Log(r.m, "do_check_sig", node.no, r.rc)

\* report_sig without the branch for the results other than 0 and BadSign
report_sig_no_errsig(r, node) ==
    IF r.rc = "0"
    THEN IF opt.batch /\ node.res2 # "0"
         THEN g10_exit(Log(write_status(sig_checked(r, node), "STATUS_GOODSIG", node.no),
                           "check_signatures_trust", node.no, node.res2))
         ELSE Log(write_status(sig_checked(r, node), "STATUS_GOODSIG", node.no),
                  "check_signatures_trust", node.no, node.res2)
    ELSE IF opt.batch
         THEN g10_exit(write_status(sig_checked(r, node), "STATUS_BADSIG", node.no))
         ELSE write_status(sig_checked(r, node), "STATUS_BADSIG", node.no)

\* the part of check_sig_and_print after do_check_sig has returned r
report_sig(r, node) ==
    IF r.rc = "0"
    THEN IF opt.batch /\ node.res2 # "0"
         THEN g10_exit(Log(write_status(sig_checked(r, node), "STATUS_GOODSIG", node.no),
                           "check_signatures_trust", node.no, node.res2))
         ELSE Log(write_status(sig_checked(r, node), "STATUS_GOODSIG", node.no),
                  "check_signatures_trust", node.no, node.res2)
    ELSE IF r.rc = G10ERR_BAD_SIGN
    THEN IF opt.batch
         THEN g10_exit(write_status(sig_checked(r, node), "STATUS_BADSIG", node.no))
         ELSE write_status(sig_checked(r, node), "STATUS_BADSIG", node.no)
    ELSE write_status(sig_checked(r, node), "STATUS_ERRSIG", node.no)

check_sig_and_print(m, node) ==
    IF m.halt # "" \/ opt.skip_verify THEN m ELSE report_sig(do_check_sig(m, node), node)

(***************************************************************************)
(* list_node: the listing of a key block.  With list_sigs and check_sigs   *)
(* each signature node is checked and its result letter printed.           *)
(***************************************************************************)
list_sig_checked(r, n) ==
    Log(r.m, "list_sig", n.no,
        CASE r.rc = "0" -> "!"
          [] r.rc = G10ERR_BAD_SIGN -> "-"
          [] r.rc = G10ERR_NO_PUBKEY -> "?"
          [] OTHER -> "%")

list_child(m, n, subtype) ==
    IF n.pkttype = "PKT_SIGNATURE"
    THEN IF ~opt.list_sigs THEN m
         ELSE IF opt.check_sigs THEN list_sig_checked(do_check_sig(m, n), n)
         ELSE Log(m, "list_sig", n.no, " ")
    ELSE IF n.pkttype = "PKT_USER_ID" THEN Log(m, "list_uid", n.no, "")
    ELSE IF n.pkttype = subtype THEN Log(m, "list_key", n.no, "sub")
    ELSE m

RECURSIVE list_key_nodes(_, _, _, _)
list_key_nodes(m, node, i, subtype) ==
    IF i > Len(node) \/ m.halt # "" THEN m
    ELSE list_key_nodes(list_child(m, node[i], subtype), node, i + 1, subtype)

list_node(m, node) ==
    LET root == node[1]
    IN  IF root.pkttype = "PKT_PUBLIC_KEY"
        THEN list_key_nodes(Log(m, "list_key", root.no, "pub"), node, 2, "PKT_PUBLIC_SUBKEY")
        ELSE IF root.pkttype = "PKT_PUBLIC_SUBKEY" THEN Log(m, "list_key", root.no, "sub")
        ELSE IF root.pkttype = "PKT_SECRET_KEY"
        THEN list_key_nodes(Log(m, "list_key", root.no, "sec"), node, 2, "PKT_SECRET_SUBKEY")
        ELSE IF root.pkttype = "PKT_SECRET_SUBKEY" THEN Log(m, "list_key", root.no, "ssb")
        ELSE m

(***************************************************************************)
(* proc_tree.  ext.hashrc is what hash_datafiles or                        *)
(* ask_for_detached_datafile returns when it is called.                    *)
(***************************************************************************)
RECURSIVE enable_sig_digests(_, _, _)
enable_sig_digests(md, node, i) ==
    LET j == find_next_kbnode(node, i, "PKT_SIGNATURE")
    IN  IF j = 0 THEN md ELSE enable_sig_digests(md_enable(md, node[j].digest_algo), node, j)

RECURSIVE check_all_sigs(_, _, _)
check_all_sigs(m, node, i) ==
    LET j == find_next_kbnode(node, i, "PKT_SIGNATURE")
    IN  IF j = 0 THEN m ELSE check_all_sigs(check_sig_and_print(m, node[j]), node, j)
\* check_hashed without the return after a failed hashing
check_hashed_no_return(m1, node, ext, all) ==
    IF all
    THEN check_all_sigs(IF ext.hashrc # "0"
                        THEN Log(m1, "log_error", 0, "can't hash datafile") ELSE m1,
                        node, 1)
    ELSE check_sig_and_print(IF ext.hashrc # "0"
                             THEN Log(m1, "log_error", 0, "can't hash datafile") ELSE m1,
                             node[1])

\* the checks that follow the hashing of detached data, unless hashing failed
check_hashed(m1, node, ext, all) ==
    IF ext.hashrc # "0" THEN Log(m1, "log_error", 0, "can't hash datafile")
    ELSE IF all THEN check_all_sigs(m1, node, 1)
    ELSE check_sig_and_print(m1, node[1])

hash_detached(m, md, textmode, ext) ==
    LET m1 == [m EXCEPT !.c.mfx = md_write(md, [src |-> "datafiles", no |-> 0, rc |-> ext.hashrc])]
    IN  IF m.c.sigs_only
        THEN Log(m1, "hash_datafiles", 0, textmode)
        ELSE Log(m1, "ask_for_detached_datafile", 0, FALSE)

proc_tree(m, node, ext) ==
    IF m.halt # "" \/ opt.list_packets THEN m
    ELSE LET root == node[1]
         IN  IF root.pkttype \in {"PKT_PUBLIC_KEY", "PKT_PUBLIC_SUBKEY", "PKT_SECRET_KEY"}
             THEN list_node(m, node)
             ELSE IF root.pkttype = "PKT_ONEPASS_SIG"
             THEN IF ~m.c.have_data
                  \* the loop that enables the digests leaves n1 = NULL, so the
                  \* text-mode argument of hash_datafiles is always 0
                  THEN check_hashed(hash_detached(m, enable_sig_digests(md_open(0), node, 1),
                                                  FALSE, ext),
                                    node, ext, TRUE)
                  ELSE check_all_sigs(m, node, 1)
             ELSE IF root.pkttype = "PKT_SIGNATURE"
             THEN IF ~m.c.have_data
                  THEN check_hashed(hash_detached(m, md_open(root.digest_algo),
                                                  root.sig_class = 1, ext),
                                    node, ext, FALSE)
                  ELSE check_sig_and_print(Log(m, "log_info", root.no, "old style signature"),
                                           root)
             ELSE Log(m, "log_error", root.no, "proc_tree: invalid root packet")

set_list(m, list) == IF m.halt # "" THEN m ELSE [m EXCEPT !.c.list = list]

release_list(m, ext) ==
    IF m.halt # "" \/ m.c.list = NULL THEN m
    ELSE set_list(proc_tree([m EXCEPT !.trees = Append(@, m.c.list)], m.c.list, ext), NULL)

(***************************************************************************)
(* The add_* functions: [m, newpkt].                                       *)
(***************************************************************************)
add_to_null_list(m, ext) ==
    IF m.halt = "" /\ ext.ub = "crash" THEN [m EXCEPT !.halt = "crash"] ELSE m

add_onepass_sig(m, pkt, ext) ==
    IF m.c.list # NULL
    THEN IF m.c.list[1].pkttype # "PKT_ONEPASS_SIG"
         \* release_list has set c->list to NULL and add_kbnode( c->list, ... )
         \* walks from that null root: the process faults, or on a build where
         \* the access goes through the new node is attached to nothing
         THEN [m |-> add_to_null_list(
                        release_list(Log(m, "log_error", pkt.no,
                                         "add_onepass_sig: another packet is in the way"), ext),
                        ext),
               newpkt |-> 1]
         ELSE [m |-> [m EXCEPT !.c.list = add_kbnode(@, new_kbnode(pkt))], newpkt |-> 1]
    ELSE [m |-> [m EXCEPT !.c.list = <<new_kbnode(pkt)>>], newpkt |-> 1]

\* add_user_id with the packet made the root when no list is open
add_user_id_rooting(m, pkt) ==
    IF m.c.list = NULL
    THEN [m |-> [m EXCEPT !.c.list = <<new_kbnode(pkt)>>], newpkt |-> 1]
    ELSE [m |-> [m EXCEPT !.c.list = add_kbnode(@, new_kbnode(pkt))], newpkt |-> 1]

add_user_id(m, pkt) ==
    IF m.c.list = NULL
    THEN [m |-> Log(m, "log_error", pkt.no, "orphaned user id"), newpkt |-> 0]
    ELSE [m |-> [m EXCEPT !.c.list = add_kbnode(@, new_kbnode(pkt))], newpkt |-> 1]

add_subkey(m, pkt) ==
    IF m.c.list = NULL
    THEN [m |-> Log(m, "log_error", pkt.no, "subkey w/o mainkey"), newpkt |-> 0]
    ELSE [m |-> [m EXCEPT !.c.list = add_kbnode(@, new_kbnode(pkt))], newpkt |-> 1]

add_signature(m, pkt) ==
    IF pkt.pkttype = "PKT_SIGNATURE" /\ m.c.list = NULL
    THEN [m |-> [m EXCEPT !.c.list = <<new_kbnode(pkt)>>], newpkt |-> 1]
    ELSE IF m.c.list = NULL THEN [m |-> m, newpkt |-> 0]
    ELSE [m |-> [m EXCEPT !.c.list = add_kbnode(@, new_kbnode(pkt))], newpkt |-> 1]

(***************************************************************************)
(* The proc_* functions.  A dek is <<[from, no]>>: where the key came from *)
(* and the packet that produced it.                                        *)
(***************************************************************************)
passphrase_to_dek(how, no) == <<[from |-> how, no |-> no]>>

IsSupportedPubkeyAlgo(algo) == algo # 0

proc_symkey_enc(m, pkt) ==
    IF pkt.seskeylen # 0
    THEN Log(m, "log_error", pkt.no, "symkey_enc packet with session keys are not supported!")
    ELSE [Log(m, "passphrase_to_dek", pkt.no, "s2k") EXCEPT
            !.c.last_was_session_key = 2,
            !.c.dek = passphrase_to_dek("s2k", pkt.no)]

proc_pubkey_enc(m, pkt) ==
    IF IsSupportedPubkeyAlgo(pkt.pubkey_algo)
    THEN [Log(m, "get_session_key", pkt.no, pkt.res) EXCEPT
            !.c.last_was_session_key = 1,
            !.c.dek = IF pkt.res # "0" THEN NULL
                      ELSE <<[from |-> "pubkey", no |-> pkt.no]>>]
    ELSE [Log(m, "log_error", pkt.no, G10ERR_PUBKEY_ALGO) EXCEPT
            !.c.last_was_session_key = 1]

\* pkt.res is what decrypt_data returns
log_decrypt_result(m, pkt) ==
    IF pkt.res \in {"0", "-1"} THEN m ELSE Log(m, "log_error", pkt.no, pkt.res)

\* the part of proc_encrypted after the key has been settled
decrypt_and_free(m1, pkt) ==
    IF m1.c.dek = NULL
    THEN [Log(m1, "log_error", pkt.no, G10ERR_NO_SECKEY) EXCEPT
            !.c.dek = NULL, !.c.last_was_session_key = 0]
    ELSE [log_decrypt_result(Log(m1, "decrypt_data", pkt.no, m1.c.dek), pkt) EXCEPT
            !.c.dek = NULL, !.c.last_was_session_key = 0]

proc_encrypted(m, pkt) ==
    IF m.c.dek = NULL /\ m.c.last_was_session_key = 0
    THEN decrypt_and_free([Log(m, "passphrase_to_dek", pkt.no, "default") EXCEPT
                             !.c.dek = passphrase_to_dek("default", pkt.no)], pkt)
    ELSE decrypt_and_free(m, pkt)

\* proc_plaintext without the default algorithms
proc_plaintext_no_defaults(m, pkt) ==
    LET list == m.c.list
        ops == {i \in 1..Len(list) : list[i].pkttype = "PKT_ONEPASS_SIG"}
        declared == {list[i].digest_algo : i \in {j \in ops : list[j].digest_algo # 0}}
        clearsig == \E i \in ops : list[i].sig_class = 1 /\ list[i].keyid = 0
        rc1 == pkt.res
        retry == rc1 = G10ERR_CREATE_FILE /\ ~m.c.sigs_only
        rc2 == IF retry THEN pkt.res2 ELSE rc1
        md == md_write(<<[algos |-> declared, data |-> <<>>]>>,
                       [src |-> "plaintext", no |-> pkt.no, rc |-> rc2])
    IN  [Log(m, "handle_plaintext", pkt.no,
             [clearsig |-> clearsig, calls |-> IF retry THEN 2 ELSE 1])
           EXCEPT !.c.mfx = md, !.c.last_was_session_key = 0]

proc_plaintext(m, pkt) ==
    LET list == m.c.list
        ops == {i \in 1..Len(list) : list[i].pkttype = "PKT_ONEPASS_SIG"}
        declared == {list[i].digest_algo : i \in {j \in ops : list[j].digest_algo # 0}}
        any == declared # {}
        clearsig == \E i \in ops : list[i].sig_class = 1 /\ list[i].keyid = 0
        algos == IF any THEN declared
                 ELSE {DIGEST_ALGO_RMD160, DIGEST_ALGO_SHA1, DIGEST_ALGO_MD5}
        rc1 == pkt.res
        retry == rc1 = G10ERR_CREATE_FILE /\ ~m.c.sigs_only
        rc2 == IF retry THEN pkt.res2 ELSE rc1
        md == md_write(<<[algos |-> algos, data |-> <<>>]>>,
                       [src |-> "plaintext", no |-> pkt.no, rc |-> rc2])
    IN  [Log(m, "handle_plaintext", pkt.no,
             [clearsig |-> clearsig, calls |-> IF retry THEN 2 ELSE 1])
           EXCEPT !.c.mfx = md, !.c.last_was_session_key = 0]

proc_compressed(m, pkt) ==
    LET cb == IF m.c.sigs_only THEN "proc_compressed_cb"
              ELSE IF m.c.encrypt_only THEN "proc_encrypt_cb"
              ELSE "NULL"
    IN  [Log(m, "handle_compressed", pkt.no, cb) EXCEPT !.c.last_was_session_key = 0]

(***************************************************************************)
(* do_proc_packets: the dispatch of one parsed packet, [m, newpkt, rc].    *)
(* rc = G10ERR_UNEXPECTED is the goto leave of a rejected packet.          *)
(***************************************************************************)
Handled(mm) == [m |-> mm, newpkt |-> -1, rc |-> "0"]

Added(r) == [m |-> r.m, newpkt |-> r.newpkt, rc |-> "0"]

Dropped(mm) == [m |-> mm, newpkt |-> 0, rc |-> "0"]

Rejected(mm) == [m |-> mm, newpkt |-> -1, rc |-> G10ERR_UNEXPECTED]

dispatch_list_packets(m, pkt) ==
    CASE pkt.pkttype = "PKT_PUBKEY_ENC" -> Handled(proc_pubkey_enc(m, pkt))
      [] pkt.pkttype = "PKT_ENCRYPTED" -> Handled(proc_encrypted(m, pkt))
      [] pkt.pkttype = "PKT_COMPRESSED" -> Handled(proc_compressed(m, pkt))
      [] OTHER -> Dropped(m)

\* dispatch_sigs_only with PKT_ENCRYPTED missing from the rejected cases
dispatch_sigs_only_lax(m, pkt, ext) ==
    CASE pkt.pkttype \in {"PKT_PUBLIC_KEY", "PKT_SECRET_KEY", "PKT_USER_ID",
                          "PKT_SYMKEY_ENC", "PKT_PUBKEY_ENC"} -> Rejected(m)
      [] pkt.pkttype = "PKT_SIGNATURE" -> Added(add_signature(m, pkt))
      [] pkt.pkttype = "PKT_PLAINTEXT" -> Handled(proc_plaintext(m, pkt))
      [] pkt.pkttype = "PKT_COMPRESSED" -> Handled(proc_compressed(m, pkt))
      [] pkt.pkttype = "PKT_ONEPASS_SIG" -> Added(add_onepass_sig(m, pkt, ext))
      [] OTHER -> Dropped(m)

dispatch_sigs_only(m, pkt, ext) ==
    CASE pkt.pkttype \in {"PKT_PUBLIC_KEY", "PKT_SECRET_KEY", "PKT_USER_ID",
                          "PKT_SYMKEY_ENC", "PKT_PUBKEY_ENC", "PKT_ENCRYPTED"} -> Rejected(m)
      [] pkt.pkttype = "PKT_SIGNATURE" -> Added(add_signature(m, pkt))
      [] pkt.pkttype = "PKT_PLAINTEXT" -> Handled(proc_plaintext(m, pkt))
      [] pkt.pkttype = "PKT_COMPRESSED" -> Handled(proc_compressed(m, pkt))
      [] pkt.pkttype = "PKT_ONEPASS_SIG" -> Added(add_onepass_sig(m, pkt, ext))
      [] OTHER -> Dropped(m)

\* dispatch_encrypt_only with the subkey types added to the rejected cases
dispatch_encrypt_only_strict(m, pkt, ext) ==
    CASE pkt.pkttype \in {"PKT_PUBLIC_KEY", "PKT_SECRET_KEY", "PKT_USER_ID",
                          "PKT_PUBLIC_SUBKEY", "PKT_SECRET_SUBKEY"} -> Rejected(m)
      [] pkt.pkttype = "PKT_SIGNATURE" -> Added(add_signature(m, pkt))
      [] pkt.pkttype = "PKT_SYMKEY_ENC" -> Handled(proc_symkey_enc(m, pkt))
      [] pkt.pkttype = "PKT_PUBKEY_ENC" -> Handled(proc_pubkey_enc(m, pkt))
      [] pkt.pkttype = "PKT_ENCRYPTED" -> Handled(proc_encrypted(m, pkt))
      [] pkt.pkttype = "PKT_PLAINTEXT" -> Handled(proc_plaintext(m, pkt))
      [] pkt.pkttype = "PKT_COMPRESSED" -> Handled(proc_compressed(m, pkt))
      [] pkt.pkttype = "PKT_ONEPASS_SIG" -> Added(add_onepass_sig(m, pkt, ext))
      [] OTHER -> Dropped(m)

\* dispatch_encrypt_only with the PKT_SYMKEY_ENC case missing
dispatch_encrypt_only_nosym(m, pkt, ext) ==
    CASE pkt.pkttype \in {"PKT_PUBLIC_KEY", "PKT_SECRET_KEY", "PKT_USER_ID"} -> Rejected(m)
      [] pkt.pkttype = "PKT_SIGNATURE" -> Added(add_signature(m, pkt))
      [] pkt.pkttype = "PKT_PUBKEY_ENC" -> Handled(proc_pubkey_enc(m, pkt))
      [] pkt.pkttype = "PKT_ENCRYPTED" -> Handled(proc_encrypted(m, pkt))
      [] pkt.pkttype = "PKT_PLAINTEXT" -> Handled(proc_plaintext(m, pkt))
      [] pkt.pkttype = "PKT_COMPRESSED" -> Handled(proc_compressed(m, pkt))
      [] pkt.pkttype = "PKT_ONEPASS_SIG" -> Added(add_onepass_sig(m, pkt, ext))
      [] OTHER -> Dropped(m)

dispatch_encrypt_only(m, pkt, ext) ==
    CASE pkt.pkttype \in {"PKT_PUBLIC_KEY", "PKT_SECRET_KEY", "PKT_USER_ID"} -> Rejected(m)
      [] pkt.pkttype = "PKT_SIGNATURE" -> Added(add_signature(m, pkt))
      [] pkt.pkttype = "PKT_SYMKEY_ENC" -> Handled(proc_symkey_enc(m, pkt))
      [] pkt.pkttype = "PKT_PUBKEY_ENC" -> Handled(proc_pubkey_enc(m, pkt))
      [] pkt.pkttype = "PKT_ENCRYPTED" -> Handled(proc_encrypted(m, pkt))
      [] pkt.pkttype = "PKT_PLAINTEXT" -> Handled(proc_plaintext(m, pkt))
      [] pkt.pkttype = "PKT_COMPRESSED" -> Handled(proc_compressed(m, pkt))
      [] pkt.pkttype = "PKT_ONEPASS_SIG" -> Added(add_onepass_sig(m, pkt, ext))
      [] OTHER -> Dropped(m)

\* dispatch_full with a PKT_SECRET_KEY appended to the open list, not rooting one
dispatch_full_noflush(m, pkt, ext) ==
    CASE pkt.pkttype = "PKT_PUBLIC_KEY" ->
            [m |-> set_list(release_list(m, ext), <<new_kbnode(pkt)>>),
             newpkt |-> 1, rc |-> "0"]
      [] pkt.pkttype \in {"PKT_SECRET_KEY", "PKT_PUBLIC_SUBKEY", "PKT_SECRET_SUBKEY"} ->
            Added(add_subkey(m, pkt))
      [] pkt.pkttype = "PKT_USER_ID" -> Added(add_user_id(m, pkt))
      [] pkt.pkttype = "PKT_SIGNATURE" -> Added(add_signature(m, pkt))
      [] pkt.pkttype = "PKT_PUBKEY_ENC" -> Handled(proc_pubkey_enc(m, pkt))
      [] pkt.pkttype = "PKT_SYMKEY_ENC" -> Handled(proc_symkey_enc(m, pkt))
      [] pkt.pkttype = "PKT_ENCRYPTED" -> Handled(proc_encrypted(m, pkt))
      [] pkt.pkttype = "PKT_PLAINTEXT" -> Handled(proc_plaintext(m, pkt))
      [] pkt.pkttype = "PKT_COMPRESSED" -> Handled(proc_compressed(m, pkt))
      [] pkt.pkttype = "PKT_ONEPASS_SIG" -> Added(add_onepass_sig(m, pkt, ext))
      [] OTHER -> Dropped(m)

dispatch_full(m, pkt, ext) ==
    CASE pkt.pkttype \in {"PKT_PUBLIC_KEY", "PKT_SECRET_KEY"} ->
            [m |-> set_list(release_list(m, ext), <<new_kbnode(pkt)>>),
             newpkt |-> 1, rc |-> "0"]
      [] pkt.pkttype \in {"PKT_PUBLIC_SUBKEY", "PKT_SECRET_SUBKEY"} -> Added(add_subkey(m, pkt))
      [] pkt.pkttype = "PKT_USER_ID" -> Added(add_user_id(m, pkt))
      [] pkt.pkttype = "PKT_SIGNATURE" -> Added(add_signature(m, pkt))
      [] pkt.pkttype = "PKT_PUBKEY_ENC" -> Handled(proc_pubkey_enc(m, pkt))
      [] pkt.pkttype = "PKT_SYMKEY_ENC" -> Handled(proc_symkey_enc(m, pkt))
      [] pkt.pkttype = "PKT_ENCRYPTED" -> Handled(proc_encrypted(m, pkt))
      [] pkt.pkttype = "PKT_PLAINTEXT" -> Handled(proc_plaintext(m, pkt))
      [] pkt.pkttype = "PKT_COMPRESSED" -> Handled(proc_compressed(m, pkt))
      [] pkt.pkttype = "PKT_ONEPASS_SIG" -> Added(add_onepass_sig(m, pkt, ext))
      [] OTHER -> Dropped(m)

dispatch(m, pkt, ext) ==
    IF opt.list_packets THEN dispatch_list_packets(m, pkt)
    ELSE IF m.c.sigs_only THEN dispatch_sigs_only(m, pkt, ext)
    ELSE IF m.c.encrypt_only THEN dispatch_encrypt_only(m, pkt, ext)
    ELSE dispatch_full(m, pkt, ext)

\* the loop body without the cleanup at its head
keep_stale_dek(m, pkt) == m

\* the cleanup at the head of the loop body
burn_stale_dek(m, pkt) ==
    IF m.c.dek # NULL /\ pkt.pkttype # "PKT_ENCRYPTED" THEN [m EXCEPT !.c.dek = NULL] ELSE m

\* the update of have_data after the dispatch
set_have_data(m, pkt) ==
    IF m.halt = "" /\ pkt.pkttype # "PKT_SIGNATURE"
    THEN [m EXCEPT !.c.have_data = (pkt.pkttype = "PKT_PLAINTEXT")]
    ELSE m

\* the code from the label leave on
free_dek(m) == IF m.halt # "" THEN m ELSE [m EXCEPT !.c.dek = NULL]

\* leave without the release_list of the open list
leave_norelease(m, ext) == free_md_filter_context(free_dek(m))

leave(m, ext) == free_md_filter_context(free_dek(release_list(m, ext)))

(***************************************************************************)
(* The state machine of one do_proc_packets run.                           *)
(***************************************************************************)
Machine == [c |-> c, log |-> log, trees |-> trees, halt |-> ""]

\* the results of the external calls one loop iteration may make, and the
\* outcome of the fault in add_onepass_sig
Ext == [hashrc : {"0", G10ERR_GENERAL}, ub : {"crash", "lost"}]

Become(m, newpc, newrc) ==
    /\ c' = m.c
    /\ log' = m.log
    /\ trees' = m.trees
    /\ pc' = IF m.halt # "" THEN m.halt ELSE newpc
    /\ rc' = IF m.halt # "" THEN rc ELSE newrc

\* parse_packet returns -1: the loop ends, rc = 0, leave
ParseEof ==
    /\ pc = "run"
    /\ pkts = <<>>
    /\ \E ext \in Ext : Become(leave(Machine, ext), "done", "0")
    /\ UNCHANGED <<opt, pkts, seen>>
    /\ UNCHANGED armvars
    /\ UNCHANGED qlvars

\* ParseError without the break on G10ERR_INVALID_PACKET
ParseErrorContinues ==
    /\ pc = "run"
    /\ pkts # <<>>
    /\ Head(pkts).rc # "0"
    /\ pkts' = Tail(pkts)
    /\ seen' = Append(seen, Head(pkts))
    /\ Become(burn_stale_dek(Machine, Head(pkts)), "run", rc)
    /\ UNCHANGED opt
    /\ UNCHANGED armvars
    /\ UNCHANGED qlvars

\* ParseError with the result of parse_packet kept as the result of the run
ParseErrorReturned ==
    /\ pc = "run"
    /\ pkts # <<>>
    /\ Head(pkts).rc # "0"
    /\ pkts' = Tail(pkts)
    /\ seen' = Append(seen, Head(pkts))
    /\ IF Head(pkts).rc = G10ERR_INVALID_PACKET
       THEN \E ext \in Ext : Become(leave(burn_stale_dek(Machine, Head(pkts)), ext), "done",
                                    Head(pkts).rc)
       ELSE Become(burn_stale_dek(Machine, Head(pkts)), "run", rc)
    /\ UNCHANGED opt
    /\ UNCHANGED armvars
    /\ UNCHANGED qlvars

\* parse_packet returns an error: the packet is freed; G10ERR_INVALID_PACKET
\* breaks the loop, every other error continues it
ParseError ==
    /\ pc = "run"
    /\ pkts # <<>>
    /\ Head(pkts).rc # "0"
    /\ pkts' = Tail(pkts)
    /\ seen' = Append(seen, Head(pkts))
    /\ IF Head(pkts).rc = G10ERR_INVALID_PACKET
       THEN \E ext \in Ext : Become(leave(burn_stale_dek(Machine, Head(pkts)), ext), "done", "0")
       ELSE Become(burn_stale_dek(Machine, Head(pkts)), "run", rc)
    /\ UNCHANGED opt
    /\ UNCHANGED armvars
    /\ UNCHANGED qlvars

\* parse_packet returns a packet: one pass through the loop body
Parsed == [Head(pkts) EXCEPT !.no = Len(seen) + 1]

AfterDispatch(d, pkt, ext) ==
    IF d.rc # "0"
    THEN Become(leave(d.m, ext), "done", d.rc)
    ELSE Become(set_have_data(d.m, pkt), "run", rc)

Dispatched(pkt, ext) == AfterDispatch(dispatch(burn_stale_dek(Machine, pkt), pkt, ext), pkt, ext)

Dispatch(guard) ==
    /\ pc = "run"
    /\ pkts # <<>>
    /\ Head(pkts).rc = "0"
    /\ guard
    /\ pkts' = Tail(pkts)
    /\ seen' = Append(seen, Head(pkts))
    /\ \E ext \in Ext : Dispatched(Parsed, ext)
    /\ UNCHANGED opt
    /\ UNCHANGED armvars
    /\ UNCHANGED qlvars

DispatchListPackets == Dispatch(opt.list_packets)

DispatchSigsOnly == Dispatch(~opt.list_packets /\ c.sigs_only)

DispatchEncryptOnly == Dispatch(~opt.list_packets /\ ~c.sigs_only /\ c.encrypt_only)

DispatchFull == Dispatch(~opt.list_packets /\ ~c.sigs_only /\ ~c.encrypt_only)

\* the context of proc_packets, proc_signature_packets, proc_encryption_packets
NewCtx(sigs_only, encrypt_only) ==
    [sigs_only |-> sigs_only, encrypt_only |-> encrypt_only, dek |-> NULL,
     last_was_session_key |-> 0, list |-> NULL, have_data |-> FALSE, mfx |-> NULL]

proc_packets == NewCtx(FALSE, FALSE)

proc_signature_packets == NewCtx(TRUE, FALSE)

proc_encryption_packets == NewCtx(FALSE, TRUE)

Opt(list_packets, skip_verify, batch) ==
    [list_packets |-> list_packets, skip_verify |-> skip_verify, batch |-> batch,
     list_sigs |-> FALSE, check_sigs |-> FALSE]

InitSeq(opts, entries, streams) ==
    /\ opt \in opts
    /\ c \in entries
    /\ pkts \in streams
    /\ pc = "run"
    /\ rc = "0"
    /\ seen = <<>>
    /\ log = <<>>
    /\ trees = <<>>
    /\ afx = NULL
    /\ chain = <<>>
    /\ src = <<>>
    /\ calls = <<>>
    /\ fed = 0
    /\ armored = -1
    /\ ql = NULL

NextSeq ==
    \/ ParseEof
    \/ ParseError
    \/ DispatchListPackets
    \/ DispatchSigsOnly
    \/ DispatchEncryptOnly
    \/ DispatchFull

(***************************************************************************)
(* Spec: every stream of up to MaxPkts parse results, one of each packet   *)
(* type and the two kinds of parse error, through each of the three entry  *)
(* points, with list_packets on and off.                                   *)
(***************************************************************************)
ParseFailures ==
    {[Pkt(t) EXCEPT !.rc = e] : t \in {"PKT_ENCRYPTED", "PKT_MARKER"},
                                e \in {G10ERR_INVALID_PACKET, G10ERR_GENERAL}}

DefaultPkt(t) ==
    [Pkt(t) EXCEPT !.digest_algo = IF t \in {"PKT_SIGNATURE", "PKT_ONEPASS_SIG"}
                                   THEN DIGEST_ALGO_SHA1 ELSE 0,
                   !.pubkey_algo = 1]

AllPkts == {DefaultPkt(t) : t \in PktTypes} \cup ParseFailures

Init ==
    InitSeq({Opt(lp, FALSE, FALSE) : lp \in BOOLEAN},
            {proc_packets, proc_signature_packets, proc_encryption_packets},
            SeqsUpTo(AllPkts, MaxPkts))

Next == NextSeq

vars == <<seqvars, armvars, qlvars>>

Spec == Init /\ [][Next]_vars

(***************************************************************************)
(* SpecEnc: encryption streams through proc_packets and                    *)
(* proc_encryption_packets.  A PubkeyEnc packet comes with a supported or  *)
(* an unsupported algorithm and a session key that can or cannot be        *)
(* recovered, a SymkeyEnc packet with or without a session key, an         *)
(* Encrypted packet with data that does or does not decrypt.               *)
(***************************************************************************)
EncPkts ==
    {[DefaultPkt("PKT_PUBKEY_ENC") EXCEPT !.pubkey_algo = a, !.res = r] :
        a \in {1}, r \in {"0", G10ERR_NO_SECKEY}}
    \cup {[DefaultPkt("PKT_PUBKEY_ENC") EXCEPT !.pubkey_algo = 0]}
    \cup {[DefaultPkt("PKT_SYMKEY_ENC") EXCEPT !.seskeylen = l] : l \in {0, 16}}
    \cup {[DefaultPkt("PKT_ENCRYPTED") EXCEPT !.res = r] : r \in {"0", G10ERR_GENERAL}}
    \cup {DefaultPkt(t) : t \in {"PKT_PUBLIC_KEY", "PKT_USER_ID", "PKT_PLAINTEXT",
                                  "PKT_COMPRESSED", "PKT_SIGNATURE", "PKT_MARKER"}}

InitEnc ==
    InitSeq({Opt(FALSE, FALSE, FALSE)},
            {proc_packets, proc_encryption_packets},
            SeqsUpTo(EncPkts, MaxEncPkts))

NextEnc ==
    \/ ParseEof
    \/ DispatchEncryptOnly
    \/ DispatchFull

SpecEnc == InitEnc /\ [][NextEnc]_vars

(***************************************************************************)
(* SpecKey: streams of key-block packets through proc_packets.  The        *)
(* signatures are key signatures (class 0x10).                             *)
(***************************************************************************)
KeyBlockTypes == KeyTypes \cup SubkeyTypes \cup {"PKT_USER_ID", "PKT_SIGNATURE"}

KeyBlockPkts ==
    {[DefaultPkt(t) EXCEPT !.sig_class = IF t = "PKT_SIGNATURE" THEN 16 ELSE 0] :
        t \in KeyBlockTypes}

InitKey ==
    InitSeq({Opt(FALSE, FALSE, FALSE)}, {proc_packets}, SeqsUpTo(KeyBlockPkts, MaxKeyPkts))

NextKey ==
    \/ ParseEof
    \/ DispatchFull

SpecKey == InitKey /\ [][NextKey]_vars

(***************************************************************************)
(* SpecSig: signed messages through proc_packets and                       *)
(* proc_signature_packets, in batch mode and not, with skip_verify on and  *)
(* off.  A signature is good and trusted, good and not trusted, bad, by an *)
(* unknown key, of an unknown digest algorithm, or of an invalid class.    *)
(***************************************************************************)
SigPkts ==
    {[DefaultPkt("PKT_SIGNATURE") EXCEPT !.res = r, !.res2 = t] :
        r \in {"0"}, t \in {"0", G10ERR_GENERAL}}
    \cup {[DefaultPkt("PKT_SIGNATURE") EXCEPT !.res = r] :
            r \in {G10ERR_BAD_SIGN, G10ERR_NO_PUBKEY}}
    \cup {[DefaultPkt("PKT_SIGNATURE") EXCEPT !.digest_algo = 0]}
    \cup {[DefaultPkt("PKT_SIGNATURE") EXCEPT !.sig_class = 64]}
    \cup {DefaultPkt(t) : t \in {"PKT_ONEPASS_SIG", "PKT_PLAINTEXT", "PKT_PUBLIC_KEY"}}

InitSig ==
    InitSeq({Opt(FALSE, sv, b) : sv \in BOOLEAN, b \in BOOLEAN},
            {proc_packets, proc_signature_packets},
            SeqsUpTo(SigPkts, MaxSigPkts))

NextSig ==
    \/ ParseEof
    \/ DispatchSigsOnly
    \/ DispatchFull

SpecSig == InitSig /\ [][NextSig]_vars

(***************************************************************************)
(* Vocabulary of the sequencer properties.                                 *)
(***************************************************************************)
SigsOnlyMode == ~opt.list_packets /\ c.sigs_only

EncryptOnlyMode == ~opt.list_packets /\ ~c.sigs_only /\ c.encrypt_only

FullMode == ~opt.list_packets /\ ~c.sigs_only /\ ~c.encrypt_only

\* the i-th parse_packet call delivered a packet of one of the types
ParsedAs(i, types) == seen[i].rc = "0" /\ seen[i].pkttype \in types

\* the numbers of the packets that sit in the open list or in a flushed one
Attached ==
    {c.list[k].no : k \in 1..Len(c.list)} \cup
    UNION {{trees[t][k].no : k \in 1..Len(trees[t])} : t \in 1..Len(trees)}

\* packet i reached no handler: nothing was logged for it and it is in no list
NotDispatched(i) == (\A k \in 1..Len(log) : log[k].no # i) /\ i \notin Attached

\* packet i ended the run with Unexpected, and nothing was parsed after it
RejectedAt(i) ==
    /\ i = Len(seen)
    /\ pc = "done"
    /\ rc = G10ERR_UNEXPECTED
    /\ NotDispatched(i)

SigsOnlyRejectTypes ==
    {"PKT_PUBLIC_KEY", "PKT_SECRET_KEY", "PKT_USER_ID",
     "PKT_SYMKEY_ENC", "PKT_PUBKEY_ENC", "PKT_ENCRYPTED"}

EncryptOnlyRejectTypes == {"PKT_PUBLIC_KEY", "PKT_SECRET_KEY", "PKT_USER_ID"}

EncTypes == {"PKT_PUBKEY_ENC", "PKT_SYMKEY_ENC", "PKT_ENCRYPTED"}

(***************************************************************************)
(* C1: in sigs-only mode with list_packets off, a parsed PublicKey,        *)
(* SecretKey, UserId, SymkeyEnc, PubkeyEnc or Encrypted packet ends the    *)
(* run at once with result Unexpected: it is the last thing parse_packet   *)
(* delivered, and it reached no handler.                                   *)
(***************************************************************************)
C1_SigsOnlyRejects ==
    SigsOnlyMode =>
        \A i \in 1..Len(seen) : ParsedAs(i, SigsOnlyRejectTypes) => RejectedAt(i)

\* a sigs-only run that was stopped by a rejected packet with input left over
C1_Witness ==
    /\ SigsOnlyMode
    /\ pc = "done"
    /\ rc = G10ERR_UNEXPECTED
    /\ Len(seen) >= 2
    /\ ParsedAs(Len(seen), {"PKT_ENCRYPTED"})
    /\ pkts # <<>>

C2_EncryptOnly ==
    EncryptOnlyMode =>
        /\ \A i \in 1..Len(seen) :
              /\ ParsedAs(i, EncryptOnlyRejectTypes) => RejectedAt(i)
              /\ ParsedAs(i, EncTypes) =>
                    ~(i = Len(seen) /\ pc = "done" /\ rc = G10ERR_UNEXPECTED)
        /\ (pc = "run" /\ pkts # <<>> /\ Head(pkts).rc = "0"
                /\ Head(pkts).pkttype \in EncTypes) =>
              \A ext \in Ext :
                  dispatch_encrypt_only(burn_stale_dek(Machine, Parsed), Parsed, ext)
                      = dispatch_full(burn_stale_dek(Machine, Parsed), Parsed, ext)

\* an encrypt-only run that recovered a session key from a PubkeyEnc packet,
\* decrypted the Encrypted packet after it, and was then stopped by a UserId
C2_Witness ==
    /\ EncryptOnlyMode
    /\ Len(seen) = 3
    /\ ParsedAs(1, {"PKT_PUBKEY_ENC"})
    /\ ParsedAs(2, {"PKT_ENCRYPTED"})
    /\ ParsedAs(3, {"PKT_USER_ID"})
    /\ \E k \in 1..Len(log) : log[k].ev = "decrypt_data" /\ log[k].no = 2
    /\ pc = "done"
    /\ rc = G10ERR_UNEXPECTED

(***************************************************************************)
(* The lists of a key-block run: those handed to proc_tree, in order, and  *)
(* the open one; the packets that root a list; and the list that a root    *)
(* and the packets after it up to the next root make.                      *)
(***************************************************************************)
Lists == trees \o (IF c.list = NULL THEN <<>> ELSE <<c.list>>)

IsKeyRooted(list) == list[1].pkttype \in KeyTypes

KeyLists == SelectSeq(Lists, IsKeyRooted)

IsRoot(i) == ParsedAs(i, KeyTypes)

RootSeq == SelectSeq([i \in 1..Len(seen) |-> i], IsRoot)

NextRoot(r) ==
    LET later == {j \in (r+1)..Len(seen) : IsRoot(j)} \cup {Len(seen) + 1}
    IN  CHOOSE j \in later : \A k \in later : j <= k

SegmentOf(r) == [k \in 1..(NextRoot(r) - r) |-> [seen[r + k - 1] EXCEPT !.no = r + k - 1]]

KeyBlockStream == \A i \in 1..Len(seen) : ParsedAs(i, KeyBlockTypes)

(***************************************************************************)
(* C4: in full mode, over a stream of key-block packets, the key-rooted    *)
(* lists (flushed ones in flush order, then the open one) are exactly one  *)
(* per PublicKey or SecretKey packet, in stream order, and the list of a   *)
(* root holds the root followed by every packet parsed after it and before *)
(* the next root, in stream order.  So each root flushed the list open     *)
(* before it, and nothing was added to a list after its flush.  While the  *)
(* run goes on the open list is the one of the most recent root.           *)
(***************************************************************************)
C4_KeyBlockLists ==
    (FullMode /\ KeyBlockStream /\ pc \in {"run", "done"}) =>
        /\ Len(KeyLists) = Len(RootSeq)
        /\ \A k \in 1..Len(RootSeq) : KeyLists[k] = SegmentOf(RootSeq[k])
        /\ (pc = "run" /\ RootSeq # <<>>) =>
              /\ c.list = SegmentOf(RootSeq[Len(RootSeq)])
              /\ Len(SelectSeq(trees, IsKeyRooted)) = Len(RootSeq) - 1
        /\ pc = "done" => c.list = NULL

\* a second key has flushed the list of a first one, which held a user id and
\* a signature, and has had a subkey appended
C4_Witness ==
    /\ FullMode
    /\ pc = "run"
    /\ Len(RootSeq) = 2
    /\ Len(trees) = 1
    /\ Len(trees[1]) = 3
    /\ trees[1][2].pkttype = "PKT_USER_ID"
    /\ trees[1][3].pkttype = "PKT_SIGNATURE"
    /\ Len(c.list) = 2
    /\ c.list[2].pkttype \in SubkeyTypes

(***************************************************************************)
(* The trace of check_sig_and_print: the status line that a result of      *)
(* do_check_sig calls for, and the signatures that were checked.           *)
(***************************************************************************)
StatusFor(r) ==
    IF r = "0" THEN "STATUS_GOODSIG"
    ELSE IF r = G10ERR_BAD_SIGN THEN "STATUS_BADSIG"
    ELSE "STATUS_ERRSIG"

IsEvent(k, ev) == k \in 1..Len(log) /\ log[k].ev = ev

Checked(no) == \E k \in 1..Len(log) : log[k].ev = "do_check_sig" /\ log[k].no = no

SigNodes(list) == {i \in 2..Len(list) : list[i].pkttype = "PKT_SIGNATURE"}

MaxFatalPkts == 3   \* longest packet stream of the runs with errors

FatalPkts ==
    {[Pkt("PKT_MARKER") EXCEPT !.rc = e] : e \in {G10ERR_INVALID_PACKET, G10ERR_GENERAL}}
    \cup {[DefaultPkt("PKT_ENCRYPTED") EXCEPT !.res = r] : r \in {"0", G10ERR_GENERAL}}
    \cup {[DefaultPkt("PKT_SIGNATURE") EXCEPT !.res = r] :
            r \in {"0", G10ERR_BAD_SIGN, G10ERR_NO_PUBKEY}}
    \cup {[DefaultPkt("PKT_SIGNATURE") EXCEPT !.res2 = G10ERR_GENERAL]}
    \cup {DefaultPkt(t) : t \in {"PKT_PLAINTEXT", "PKT_PUBLIC_KEY", "PKT_USER_ID"}}

InitFatal ==
    InitSeq({Opt(FALSE, FALSE, b) : b \in BOOLEAN},
            {proc_packets, proc_signature_packets, proc_encryption_packets},
            SeqsUpTo(FatalPkts, MaxFatalPkts))

NextFatal ==
    \/ ParseEof
    \/ ParseError
    \/ DispatchSigsOnly
    \/ DispatchEncryptOnly
    \/ DispatchFull

SpecFatal == InitFatal /\ [][NextFatal]_vars

\* the i-th parse_packet call returned InvalidPacket, or a packet that the
\* mode rejects with Unexpected
FatalAt(i) ==
    \/ seen[i].rc = G10ERR_INVALID_PACKET
    \/ SigsOnlyMode /\ ParsedAs(i, SigsOnlyRejectTypes)
    \/ EncryptOnlyMode /\ ParsedAs(i, EncryptOnlyRejectTypes)

\* the i-th parse_packet call returned an error other than InvalidPacket
OtherParseErrorAt(i) == seen[i].rc \notin {"0", G10ERR_INVALID_PACKET}

\* the data of the i-th packet was handed to decrypt_data, which failed
FailedDecryptAt(i) ==
    /\ ParsedAs(i, {"PKT_ENCRYPTED"})
    /\ seen[i].res \notin {"0", "-1"}
    /\ \E k \in 1..Len(log) : log[k].ev = "decrypt_data" /\ log[k].no = i

\* do_check_sig has returned an error for some signature
FailedCheck == \E k \in 1..Len(log) : log[k].ev = "do_check_sig" /\ log[k].arg # "0"

\* the loop is to call parse_packet again, or has ended on its EOF
LoopGoesOn == pc = "run" \/ pkts = <<>>

\* what C11 says of the fatal errors and of the parse and decryption errors
FatalEndsOthersContinue ==
    \A i \in 1..Len(seen) :
        /\ FatalAt(i) => i = Len(seen) /\ pc # "run" /\ NotDispatched(i)
        /\ rc = G10ERR_UNEXPECTED => RejectedAt(Len(seen))
        /\ (OtherParseErrorAt(i) /\ i = Len(seen)) => LoopGoesOn /\ NotDispatched(i)
        /\ (FailedDecryptAt(i) /\ i = Len(seen)) => LoopGoesOn

\* C11 as stated: InvalidPacket and Unexpected end the run, no further packet
\* is parsed or dispatched; after any other parse error and after a failed
\* decryption the loop goes on with the next packet; and a failed signature
\* check does not end the run either.
C11_OnlyFatalEndsRun ==
    /\ FatalEndsOthersContinue
    /\ FailedCheck => pc # "exit"

\* C11 amended: InvalidPacket and Unexpected end the run, no further packet
\* is parsed or dispatched; after any other parse error and after a failed
\* decryption the loop goes on with the next packet; a failed signature check
\* ends nothing when not in batch mode, but in batch mode a bad signature
\* (and a good one that is not trusted) ends the process in g10_exit.
C11_FatalOrBatchExitEndsRun ==
    /\ FatalEndsOthersContinue
    /\ pc = "exit" <=>
          /\ opt.batch
          /\ log # <<>>
          /\ \/ log[Len(log)].ev = "write_status" /\ log[Len(log)].arg = "STATUS_BADSIG"
             \/ log[Len(log)].ev = "check_signatures_trust" /\ log[Len(log)].arg # "0"

\* after a parse error that is not fatal and a failed decryption the loop
\* went on, and InvalidPacket ended the run with a packet left unparsed
C11_Witness ==
    /\ Len(seen) = 3
    /\ OtherParseErrorAt(1)
    /\ FailedDecryptAt(2)
    /\ seen[3].rc = G10ERR_INVALID_PACKET
    /\ pc = "done"

(***************************************************************************)
(* The armor filter (armor.c).  A byte is a number in 0..255 and a text is *)
(* a sequence of bytes; the texts below are given by their ASCII codes.    *)
(* A C array indexed from 0 is a sequence indexed from 1.                  *)
(***************************************************************************)
NUL == 0

TAB == 9

LF == 10

CR == 13

SP == 32

COMMA == 44

DASH == 45

COLON == 58

PAD == 61       \* '='

MAX_LINELEN == 20000

CRCINIT == 12006606     \* 0xB704CE

CRCPOLY == 8801531      \* 0x864CFB

BEGIN_SIGNATURE == 2

BEGIN_SIGNED_MSG_IDX == 3

\* the head_strings, without the closing NULL
\*   0: "BEGIN PGP MESSAGE"
\*   1: "BEGIN PGP PUBLIC KEY BLOCK"
\*   2: "BEGIN PGP SIGNATURE"
\*   3: "BEGIN PGP SIGNED MESSAGE"
\*   4: "BEGIN PGP ARMORED FILE"
\*   5: "BEGIN PGP PRIVATE KEY BLOCK"
\*   6: "BEGIN PGP SECRET KEY BLOCK"
head_strings ==
    <<<<66, 69, 71, 73, 78, 32, 80, 71, 80, 32, 77, 69, 83, 83, 65, 71, 69>>,
      <<66, 69, 71, 73, 78, 32, 80, 71, 80, 32, 80, 85, 66, 76, 73, 67, 32, 75, 69, 89, 32, 66, 76, 79, 67, 75>>,
      <<66, 69, 71, 73, 78, 32, 80, 71, 80, 32, 83, 73, 71, 78, 65, 84, 85, 82, 69>>,
      <<66, 69, 71, 73, 78, 32, 80, 71, 80, 32, 83, 73, 71, 78, 69, 68, 32, 77, 69, 83, 83, 65, 71, 69>>,
      <<66, 69, 71, 73, 78, 32, 80, 71, 80, 32, 65, 82, 77, 79, 82, 69, 68, 32, 70, 73, 76, 69>>,
      <<66, 69, 71, 73, 78, 32, 80, 71, 80, 32, 80, 82, 73, 86, 65, 84, 69, 32, 75, 69, 89, 32, 66, 76, 79, 67, 75>>,
      <<66, 69, 71, 73, 78, 32, 80, 71, 80, 32, 83, 69, 67, 82, 69, 84, 32, 75, 69, 89, 32, 66, 76, 79, 67, 75>>>>

\* the tail_strings, without the closing NULL
\*   0: "END PGP MESSAGE"
\*   1: "END PGP PUBLIC KEY BLOCK"
\*   2: "END PGP SIGNATURE"
\*   3: "END dummy"
\*   4: "END PGP ARMORED FILE"
\*   5: "END PGP PRIVATE KEY BLOCK"
\*   6: "END PGP SECRET KEY BLOCK"
tail_strings ==
    <<<<69, 78, 68, 32, 80, 71, 80, 32, 77, 69, 83, 83, 65, 71, 69>>,
      <<69, 78, 68, 32, 80, 71, 80, 32, 80, 85, 66, 76, 73, 67, 32, 75, 69, 89, 32, 66, 76, 79, 67, 75>>,
      <<69, 78, 68, 32, 80, 71, 80, 32, 83, 73, 71, 78, 65, 84, 85, 82, 69>>,
      <<69, 78, 68, 32, 100, 117, 109, 109, 121>>,
      <<69, 78, 68, 32, 80, 71, 80, 32, 65, 82, 77, 79, 82, 69, 68, 32, 70, 73, 76, 69>>,
      <<69, 78, 68, 32, 80, 71, 80, 32, 80, 82, 73, 86, 65, 84, 69, 32, 75, 69, 89, 32, 66, 76, 79, 67, 75>>,
      <<69, 78, 68, 32, 80, 71, 80, 32, 83, 69, 67, 82, 69, 84, 32, 75, 69, 89, 32, 66, 76, 79, 67, 75>>>>

\* "ABCDEFGHIJKLMNOPQRSTUVWXYZabcdefghijklmnopqrstuvwxyz0123456789+/"
bintoasc ==
    <<65, 66, 67, 68, 69, 70, 71, 72, 73, 74, 75, 76, 77, 78, 79, 80, 81, 82, 83, 84, 85, 86, 87, 88, 89, 90, 97, 98, 99, 100, 101, 102, 103, 104, 105, 106, 107, 108, 109, 110, 111, 112, 113, 114, 115, 116, 117, 118, 119, 120, 121, 122, 48, 49, 50, 51, 52, 53, 54, 55, 56, 57, 43, 47>>

\* "-----"
Dashes == <<45, 45, 45, 45, 45>>

(***************************************************************************)
(* The loops of the C code.  Loop is the state after at most n passes      *)
(* through a loop body from the state s: the body of an ended loop leaves  *)
(* the state as it is, and n is a number of passes the loop cannot exceed. *)
(* ForEach is the state after step has been taken with the bytes           *)
(* buf[lo..hi] in order.  Both work on halves, and look at s first.        *)
(***************************************************************************)
RECURSIVE Loop(_, _, _)
Loop(body(_), s, n) ==
    IF s = s /\ n <= 1 THEN (IF n = 1 THEN body(s) ELSE s)
    ELSE Loop(body, Loop(body, s, n \div 2), n - (n \div 2))

RECURSIVE ForEach(_, _, _, _, _)
ForEach(step(_, _), s, buf, lo, hi) ==
    IF s = s /\ lo >= hi THEN (IF lo = hi THEN step(s, buf[lo]) ELSE s)
    ELSE ForEach(step, ForEach(step, s, buf, lo, (lo + hi) \div 2), buf,
                 ((lo + hi) \div 2) + 1, hi)

(***************************************************************************)
(* Bit operations on the unsigned integers of C.                           *)
(***************************************************************************)
RECURSIVE BitXor(_, _)
BitXor(a, b) ==
    IF a = 0 THEN b
    ELSE IF b = 0 THEN a
    ELSE 2 * BitXor(a \div 2, b \div 2) + ((a + b) % 2)

RECURSIVE BitAnd(_, _)
BitAnd(a, b) ==
    IF a = 0 \/ b = 0 THEN 0
    ELSE 2 * BitAnd(a \div 2, b \div 2) + ((a % 2) * (b % 2))

RECURSIVE BitOr(_, _)
BitOr(a, b) ==
    IF a = 0 THEN b
    ELSE IF b = 0 THEN a
    ELSE 2 * BitOr(a \div 2, b \div 2) + (IF a % 2 = 1 \/ b % 2 = 1 THEN 1 ELSE 0)

\* x << k, x >> k, and the cast to byte.  The u32 values of the CRC code are
\* only ever read in their low 24 bits (t & 0x00800000, (crc >> 16) & 0xff,
\* crc & 0x00ffffff), and a left shift carries nothing downwards: Shl is the
\* low 24 bits of x << k.
Shl(x, k) == (x % 2^(24 - k)) * 2^k

Shr(x, k) == x \div 2^k

Byte(x) == x % 256

(***************************************************************************)
(* initialize: the CRC table and the radix64 decoding table.               *)
(***************************************************************************)
\* the two entries made from t = crc_table[j]
crc_pair(t) ==
    IF BitAnd(t, 8388608) # 0
    THEN <<BitXor(Shl(t, 1), CRCPOLY), Shl(t, 1)>>
    ELSE <<Shl(t, 1), BitXor(Shl(t, 1), CRCPOLY)>>

\* one pass of for(i=j=0; j < 128; j++ ): j is half the length of the table
crc_fill(tbl) == tbl \o crc_pair(IF tbl = <<>> THEN 0 ELSE tbl[(Len(tbl) \div 2) + 1])

crc_table == Loop(crc_fill, <<>>, 128)

asctobin ==
    [ch \in 0..255 |->
        IF \E i \in 1..Len(bintoasc) : bintoasc[i] = ch
        THEN (CHOOSE i \in 1..Len(bintoasc) : bintoasc[i] = ch) - 1
        ELSE 255]

\* crc = (crc << 8) ^ crc_table[((crc >> 16)&0xff) ^ b]
crc_step(crc, b) ==
    BitXor(Shl(crc, 8), crc_table[BitXor(BitAnd(Shr(crc, 16), 255), b) + 1])

\* the loop over the buffer, followed by crc &= 0x00ffffff
crc_update(crc, buf) == BitAnd(ForEach(crc_step, crc, buf, 1, Len(buf)), 16777215)

(***************************************************************************)
(* Texts in a C buffer.  A line buffer holds the bytes of the line and a   *)
(* closing NUL; the C string in it ends before the first NUL.              *)
(***************************************************************************)
\* the first position from i on that holds one of the bytes, or Len(s) + 1
find_byte(s, i, bytes) ==
    Loop(LAMBDA j : IF j > Len(s) \/ s[j] \in bytes THEN j ELSE j + 1,
         IF i > Len(s) THEN Len(s) + 1 ELSE i, Len(s) - i + 1)

\* the first position from i on that holds none of the bytes, or Len(s) + 1
skip_bytes(s, i, bytes) ==
    Loop(LAMBDA j : IF j > Len(s) \/ s[j] \notin bytes THEN j ELSE j + 1,
         IF i > Len(s) THEN Len(s) + 1 ELSE i, Len(s) - i + 1)

CStr(buf) == SubSeq(buf, 1, find_byte(buf, 1, {NUL}) - 1)

\* memcmp / strncmp of the text at position i with a text that holds no NUL
HasAt(s, i, t) == i + Len(t) - 1 <= Len(s) /\ SubSeq(s, i, i + Len(t) - 1) = t

\* strstr: the first position from i on where t stands, or 0
find_text(s, i, t) ==
    Loop(LAMBDA j : IF j = 0 \/ HasAt(s, j, t) THEN j
                    ELSE IF j + Len(t) > Len(s) THEN 0 ELSE j + 1,
         IF i + Len(t) - 1 > Len(s) THEN 0 ELSE i, Len(s))

\* iobuf_read_line: the bytes up to and with the next LF, or up to the end of
\* the data; a line longer than maxlen is cut and reported as truncated
iobuf_read_line(data, pos, maxlen) ==
    IF find_byte(data, pos, {LF}) - pos + 1 > maxlen
    THEN [line |-> SubSeq(data, pos, pos + maxlen - 1),
          pos |-> IF find_byte(data, pos, {LF}) > Len(data) THEN Len(data) + 1
                  ELSE find_byte(data, pos, {LF}) + 1,
          maxlen |-> 0]
    ELSE IF find_byte(data, pos, {LF}) > Len(data)
    THEN [line |-> SubSeq(data, pos, Len(data)), pos |-> Len(data) + 1, maxlen |-> maxlen]
    ELSE [line |-> SubSeq(data, pos, find_byte(data, pos, {LF})),
          pos |-> find_byte(data, pos, {LF}) + 1, maxlen |-> maxlen]

(***************************************************************************)
(* trim_trailing_spaces: the length up to the last byte that strchr does   *)
(* not find in " \t\r\n" (it finds the closing NUL of that text too).      *)
(***************************************************************************)
RECURSIVE trim_trailing_spaces(_, _)
trim_trailing_spaces(line, len) ==
    IF len = 0 THEN 0
    ELSE IF line[len] \in {SP, TAB, CR, LF, NUL} THEN trim_trailing_spaces(line, len - 1)
    ELSE len

(***************************************************************************)
(* is_armored: by the first byte, whether the data may be armored.         *)
(***************************************************************************)
\* PKT_MARKER, PKT_SYMKEY_ENC, PKT_PUBLIC_KEY, PKT_SECRET_KEY, PKT_PUBKEY_ENC,
\* PKT_SIGNATURE, PKT_COMMENT, PKT_OLD_COMMENT, PKT_PLAINTEXT, PKT_COMPRESSED,
\* PKT_ENCRYPTED
RegularPktTypes == {10, 3, 6, 5, 1, 2, 61, 16, 11, 8, 9}

ctb_pkttype(ctb) ==
    IF BitAnd(ctb, 64) # 0 THEN BitAnd(ctb, 63) ELSE BitAnd(Shr(ctb, 2), 15)

is_armored(buf) ==
    IF BitAnd(buf[1], 128) = 0 THEN TRUE
    ELSE ctb_pkttype(buf[1]) \notin RegularPktTypes

(***************************************************************************)
(* is_armor_header: the index of the head string of an armor line, or -1.  *)
(***************************************************************************)
\* after the closing dashes at p: an optional CR, an optional LF, the end
ends_after(s, p) ==
    \/ p > Len(s)
    \/ p = Len(s) /\ s[p] \in {CR, LF}
    \/ p + 1 = Len(s) /\ s[p] = CR /\ s[p + 1] = LF

head_index(name) ==
    IF \E i \in 1..Len(head_strings) : head_strings[i] = name
    THEN (CHOOSE i \in 1..Len(head_strings) : head_strings[i] = name) - 1
    ELSE -1

armor_header_at(s, p) ==
    IF p = 0 THEN -1
    ELSE IF ~ends_after(s, p + 5) THEN -1
    ELSE head_index(SubSeq(s, 6, p - 1))

is_armor_header(line, len) ==
    IF len < 15 THEN -1
    ELSE IF ~HasAt(CStr(line), 1, Dashes) THEN -1
    ELSE armor_header_at(CStr(line), find_text(CStr(line), 6, Dashes))

(***************************************************************************)
(* parse_hash_header: the set of digests a "Hash:" line names, as the bits *)
(* 1 (RIPEMD160), 2 (SHA1), 4 (MD5), 8 (TIGER); 0 for an invalid line.     *)
(***************************************************************************)
\* "Hash:", "NotDashEscaped:" and the digest names, in the order they are tried
HashTag == <<72, 97, 115, 104, 58>>

NotDashEscapedTag == <<78, 111, 116, 68, 97, 115, 104, 69, 115, 99, 97, 112, 101, 100, 58>>

HashNames ==
    <<[name |-> <<82, 73, 80, 69, 77, 68, 49, 54, 48>>, bit |-> 1],
      [name |-> <<83, 72, 65, 49>>, bit |-> 2],
      [name |-> <<77, 68, 53>>, bit |-> 4],
      [name |-> <<84, 73, 71, 69, 82>>, bit |-> 8]>>

\* !strncmp( s, name, s2-s ): the token is a prefix of the name
token_matches(token, name) ==
    Len(token) <= Len(name) /\ SubSeq(name, 1, Len(token)) = token

token_bit(token) ==
    IF \E k \in 1..Len(HashNames) : token_matches(token, HashNames[k].name)
    THEN HashNames[CHOOSE k \in 1..Len(HashNames) :
                       /\ token_matches(token, HashNames[k].name)
                       /\ \A j \in 1..(k - 1) : ~token_matches(token, HashNames[j].name)].bit
    ELSE 0

RECURSIVE hash_tokens(_, _, _)
RECURSIVE hash_token(_, _, _, _)
RECURSIVE hash_sep(_, _, _)
\* the loop over the tokens: s is the position the token search starts at
hash_tokens(line, s, found) ==
    IF skip_bytes(line, s, {SP, TAB}) > Len(line) THEN found
    ELSE hash_token(line, skip_bytes(line, s, {SP, TAB}),
                    find_byte(line, skip_bytes(line, s, {SP, TAB}) + 1, {SP, TAB, COMMA}),
                    found)

\* one token, from s up to s2
hash_token(line, s, s2, found) ==
    IF token_bit(SubSeq(line, s, s2 - 1)) = 0 THEN 0
    ELSE hash_sep(line, skip_bytes(line, s2, {SP, TAB}),
                  BitOr(found, token_bit(SubSeq(line, s, s2 - 1))))

\* after a token and the blanks behind it: the end, or a comma
hash_sep(line, s2, found) ==
    IF s2 > Len(line) THEN found
    ELSE IF line[s2] # COMMA THEN 0
    ELSE hash_tokens(line, s2 + 1, found)

parse_hash_header(line) ==
    IF Len(line) < 6 \/ Len(line) > 60 THEN 0
    ELSE IF ~HasAt(line, 1, HashTag) THEN 0
    ELSE hash_tokens(line, 6, 0)

(***************************************************************************)
(* One call of the filter works on a record f: the context afx, the read   *)
(* position pos in the data of the iobuf below, the trace log, halt ("" or *)
(* how the process ended), and rc, the local rc of the function running.   *)
(***************************************************************************)
NewAfx(what, only_keyblocks) ==
    [what |-> what, only_keyblocks |-> only_keyblocks, hdrlines |-> NULL,
     inp_checked |-> 0, inp_bypass |-> 0, in_cleartext |-> 0, not_dash_escaped |-> 0,
     hashes |-> 0, faked |-> 0, truncated |-> 0,
     buffer |-> <<>>, buffer_len |-> 0, buffer_pos |-> 0,
     radbuf |-> <<0, 0, 0, 0>>, idx |-> 0, idx2 |-> 0, crc |-> 0,
     status |-> 0, any_data |-> 0, empty |-> 0]

FLog(f, ev, arg) ==
    IF f.halt # "" THEN f
    ELSE [f EXCEPT !.log = Append(@, [ev |-> ev, no |-> 0, arg |-> arg])]

\* the byte at a position of a line buffer; past the line stands the NUL
At(line, i) == IF i <= Len(line) THEN line[i] ELSE NUL

invalid_armor(f) ==
    IF f.halt # "" THEN f
    ELSE [FLog(f, "write_status", "STATUS_BADARMOR") EXCEPT !.halt = "exit"]

\* afx->buffer_len = iobuf_read_line( a, &afx->buffer, ... )
set_line(f, r) ==
    [f EXCEPT !.afx.buffer = r.line, !.afx.buffer_len = Len(r.line), !.pos = r.pos]

RECURSIVE skip_truncated(_, _, _)
\* do { read a line } while( !maxlen )
skip_truncated(f, data, r) ==
    IF r.maxlen # 0 THEN set_line(f, r)
    ELSE skip_truncated(f, data, iobuf_read_line(data, r.pos, MAX_LINELEN))

read_full_line(f, data) == skip_truncated(f, data, iobuf_read_line(data, f.pos, MAX_LINELEN))

(***************************************************************************)
(* parse_header_line: [i, f] with i = 0 for the empty line, -1 for an      *)
(* invalid header line, 1 for a good one.                                  *)
(***************************************************************************)
is_empty_line(line, len) ==
    At(line, 1) = LF \/ (len # 0 /\ At(line, 1) = CR /\ At(line, 2) = LF)

\* the line as the C string that trim_trailing_spaces leaves
trimmed(line, len) == CStr(SubSeq(line, 1, trim_trailing_spaces(line, len)))

\* no_header_colon without the test of p[1]
no_header_colon_at_all(t) == find_byte(t, 1, {COLON}) > Len(t)

\* p = strchr( line, ':'); !p || !p[1]
no_header_colon(t) == find_byte(t, 1, {COLON}) >= Len(t)

clearsig_header(f, t) ==
    IF parse_hash_header(t) # 0
    THEN [i |-> 1, f |-> [f EXCEPT !.afx.hashes = BitOr(@, parse_hash_header(t))]]
    ELSE IF Len(t) > 15 /\ HasAt(t, 1, NotDashEscapedTag)
    THEN [i |-> 1, f |-> [f EXCEPT !.afx.not_dash_escaped = 1]]
    ELSE [i |-> -1, f |-> FLog(f, "log_error", "invalid clearsig header")]

parse_header_line(f, line, len) ==
    IF is_empty_line(line, len) THEN [i |-> 0, f |-> f]
    ELSE IF no_header_colon(trimmed(line, len))
    THEN [i |-> -1, f |-> FLog(f, "log_error", "invalid armor header")]
    ELSE IF f.afx.in_cleartext # 0 THEN clearsig_header(f, trimmed(line, len))
    ELSE [i |-> 1, f |-> f]

(***************************************************************************)
(* check_input: whether the data is armored, and the armor header.         *)
(* The result is f, with f.rc the value returned.                          *)
(***************************************************************************)
set_bypass(f) == [f EXCEPT !.afx.inp_checked = 1, !.afx.inp_bypass = 1, !.rc = "0"]

header_accepted(a, i) == i >= 0 /\ ~(a.only_keyblocks # 0 /\ i \notin {1, 5, 6})

header_found(f, i) ==
    IF i # BEGIN_SIGNED_MSG_IDX THEN f
    ELSE IF f.afx.in_cleartext # 0
    THEN [FLog(f, "log_error", "nested clear text signatures") EXCEPT
            !.rc = G10ERR_INVALID_ARMOR, !.afx.in_cleartext = 1]
    ELSE [f EXCEPT !.afx.in_cleartext = 1]

RECURSIVE find_header(_, _)
\* find the armor header
find_header(f, data) ==
    IF f.afx.buffer_len = 0 THEN f
    ELSE IF header_accepted(f.afx, is_armor_header(f.afx.buffer, f.afx.buffer_len))
    THEN header_found(f, is_armor_header(f.afx.buffer, f.afx.buffer_len))
    ELSE find_header(read_full_line(f, data), data)

RECURSIVE parse_header_lines(_, _)
RECURSIVE after_header_line(_, _)
\* parse the header lines
parse_header_lines(f, data) ==
    IF f.afx.buffer_len = 0 THEN f
    ELSE after_header_line(read_full_line(f, data), data)

after_header_line(f, data) ==
    IF parse_header_line(f, f.afx.buffer, f.afx.buffer_len).i > 0
    THEN parse_header_lines(parse_header_line(f, f.afx.buffer, f.afx.buffer_len).f, data)
    ELSE IF parse_header_line(f, f.afx.buffer, f.afx.buffer_len).i = 0 THEN f
    ELSE [parse_header_line(f, f.afx.buffer, f.afx.buffer_len).f EXCEPT
            !.rc = G10ERR_INVALID_ARMOR]

\* input_checked without the call of invalid_armor
input_checked_returns(f) ==
    IF f.rc # "0" THEN f
    ELSE IF f.afx.in_cleartext # 0 THEN [f EXCEPT !.afx.faked = 1]
    ELSE [f EXCEPT !.afx.inp_checked = 1, !.afx.crc = CRCINIT, !.afx.idx = 0,
                   !.afx.radbuf[1] = 0]

input_checked(f) ==
    IF f.rc # "0" THEN invalid_armor(f)
    ELSE IF f.afx.in_cleartext # 0 THEN [f EXCEPT !.afx.faked = 1]
    ELSE [f EXCEPT !.afx.inp_checked = 1, !.afx.crc = CRCINIT, !.afx.idx = 0,
                   !.afx.radbuf[1] = 0]

first_line(f) ==
    IF f.afx.buffer_len = 0 THEN [f EXCEPT !.rc = "-1"]
    ELSE IF ~is_empty_line(f.afx.buffer, f.afx.buffer_len) /\ ~is_armored(f.afx.buffer)
    THEN set_bypass(f)
    ELSE f

check_input_line(f, data, r) ==
    IF r.maxlen = 0 THEN set_bypass(set_line(f, r))
    ELSE IF first_line(set_line(f, r)).rc = "-1" \/ first_line(set_line(f, r)).afx.inp_bypass # 0
    THEN first_line(set_line(f, r))
    ELSE input_checked(parse_header_lines(find_header(set_line(f, r), data), data))

check_input(f, data) ==
    check_input_line([f EXCEPT !.rc = "0"], data, iobuf_read_line(data, f.pos, MAX_LINELEN))

(***************************************************************************)
(* radix64_read.  f.buf is the caller's buffer as far as it is written (n  *)
(* is its length), f.flag is checkcrc; idx and val are kept in afx.idx and *)
(* afx.radbuf[0], where the function stores them when the loop is over.    *)
(***************************************************************************)
radix64_put(f, c6) ==
    CASE f.afx.idx = 0 ->
            [f EXCEPT !.afx.radbuf[1] = Byte(c6 * 4), !.afx.idx = 1]
      [] f.afx.idx = 1 ->
            [f EXCEPT !.buf = Append(@, BitOr(f.afx.radbuf[1], BitAnd(Shr(c6, 4), 3))),
                      !.afx.radbuf[1] = BitAnd(c6 * 16, 240), !.afx.idx = 2]
      [] f.afx.idx = 2 ->
            [f EXCEPT !.buf = Append(@, BitOr(f.afx.radbuf[1], BitAnd(Shr(c6, 2), 15))),
                      !.afx.radbuf[1] = BitAnd(c6 * 64, 192), !.afx.idx = 3]
      [] OTHER ->
            [f EXCEPT !.buf = Append(@, BitOr(f.afx.radbuf[1], BitAnd(c6, 63))),
                      !.afx.radbuf[1] = BitOr(f.afx.radbuf[1], BitAnd(c6, 63)),
                      !.afx.idx = 0]

\* the pad character stops the loop
radix64_pad(f) ==
    [f EXCEPT !.buf = IF f.afx.idx = 1 THEN Append(@, f.afx.radbuf[1]) ELSE @,
              !.flag = TRUE]

radix64_char(f, ch) ==
    IF ch \in {LF, SP, CR, TAB} THEN f
    ELSE IF ch = PAD THEN radix64_pad(f)
    ELSE IF asctobin[ch] = 255
    THEN FLog(f, "log_error", "invalid radix64 character skipped")
    ELSE radix64_put(f, asctobin[ch])

\* one pass of for( n=0; n < size; ): it ends at the end of the data and
\* at the pad character
radix64_next(f, data, size) ==
    IF f.flag \/ Len(f.buf) >= size \/ f.pos > Len(data) THEN f
    ELSE radix64_char([f EXCEPT !.pos = @ + 1], data[f.pos])

radix64_loop(f, data, size) ==
    Loop(LAMBDA s : radix64_next(s, data, size), f, Len(data) - f.pos + 1)

\* the four characters of the CRC: st = [c, idx, val, mycrc, pos]
crc_char_put(st, c6) ==
    CASE st.idx = 0 -> [st EXCEPT !.val = Byte(c6 * 4)]
      [] st.idx = 1 ->
            [st EXCEPT !.mycrc = BitOr(@, Shl(BitOr(st.val, BitAnd(Shr(c6, 4), 3)), 16)),
                       !.val = BitAnd(c6 * 16, 240)]
      [] st.idx = 2 ->
            [st EXCEPT !.mycrc = BitOr(@, Shl(BitOr(st.val, BitAnd(Shr(c6, 2), 15)), 8)),
                       !.val = BitAnd(c6 * 64, 192)]
      [] OTHER ->
            [st EXCEPT !.mycrc = BitOr(@, BitOr(st.val, BitAnd(c6, 63))),
                       !.val = BitOr(st.val, BitAnd(c6, 63))]

RECURSIVE crc_chars(_, _)
RECURSIVE crc_next(_, _)
crc_chars(data, st) ==
    IF asctobin[st.c] = 255 THEN [st EXCEPT !.c = 255]
    ELSE crc_next(data, crc_char_put(st, asctobin[st.c]))

\* c = iobuf_get(a); while( ++idx < 4 )
crc_next(data, st) ==
    IF st.pos > Len(data) THEN [st EXCEPT !.c = -1]
    ELSE IF st.idx + 1 < 4
    THEN crc_chars(data, [st EXCEPT !.c = data[st.pos], !.pos = @ + 1, !.idx = @ + 1])
    ELSE [st EXCEPT !.c = data[st.pos], !.pos = @ + 1, !.idx = @ + 1]

crc_checked(f, st) ==
    IF st.c = -1
    THEN [FLog(f, "log_error", "premature eof (in CRC)") EXCEPT
            !.rc = G10ERR_INVALID_ARMOR, !.pos = st.pos]
    ELSE IF st.idx # 4
    THEN [FLog(f, "log_error", "malformed CRC") EXCEPT
            !.rc = G10ERR_INVALID_ARMOR, !.pos = st.pos]
    ELSE IF st.mycrc # f.afx.crc
    THEN [FLog(f, "log_error", "CRC error") EXCEPT
            !.rc = G10ERR_INVALID_ARMOR, !.pos = st.pos]
    ELSE [f EXCEPT !.rc = "0", !.pos = st.pos]

\* after the skipping of line feeds and pad characters, p is where c stands
read_crc(f, data, p) ==
    IF p > Len(data)
    THEN [FLog(f, "log_error", "premature eof (no CRC)") EXCEPT !.pos = p]
    ELSE crc_checked(f, crc_chars(data, [c |-> data[p], idx |-> 0, val |-> f.afx.radbuf[1],
                                          mycrc |-> 0, pos |-> p + 1]))

check_crc(f, data) ==
    IF ~f.flag THEN f
    ELSE read_crc([f EXCEPT !.afx.any_data = 1, !.afx.inp_checked = 0, !.afx.faked = 0],
                  data, skip_bytes(data, f.pos, {LF, SP, CR, TAB, PAD}))

\* if( !n ) rc = -1
nothing_is_eof(f) == IF f.halt = "" /\ Len(f.buf) = 0 THEN [f EXCEPT !.rc = "-1"] ELSE f

store_crc(f) == [f EXCEPT !.afx.crc = crc_update(@, f.buf)]

radix64_read(f, data, size) ==
    nothing_is_eof(check_crc(store_crc(radix64_loop([f EXCEPT !.rc = "0", !.flag = FALSE],
                                                    data, size)),
                             data))

(***************************************************************************)
(* fake_packet: the text of a clear-signed message as chunks of a literal  *)
(* data packet.  f.buf is the caller's buffer as far as it is written (len *)
(* is its length; the two bytes of the length header are set when the loop *)
(* is over), f.flag is lastline, size is the size less the reserved 3.     *)
(***************************************************************************)
\* "From "
FromTag == <<70, 114, 111, 109, 32>>

Min(a, b) == IF a < b THEN a ELSE b

RECURSIVE put_emplines(_, _)
\* while( emplines && len < size ): CR, LF
put_emplines(f, size) ==
    IF f.afx.empty = 0 \/ Len(f.buf) >= size THEN f
    ELSE put_emplines([f EXCEPT !.buf = @ \o <<CR, LF>>, !.afx.empty = @ - 1], size)

\* the rest of the line in afx->buffer as far as there is room, then CR, LF
put_line(f, size, k) ==
    [f EXCEPT !.buf = @ \o SubSeq(f.afx.buffer, f.afx.buffer_pos + 1, f.afx.buffer_pos + k)
                        \o <<CR, LF>>,
              !.afx.buffer_pos = @ + k]

\* end_of_text without len -= 2
end_of_text_keeps_crlf(f) ==
    IF Len(f.buf) < 4 THEN [f EXCEPT !.halt = "abort"]
    ELSE [f EXCEPT !.flag = TRUE, !.rc = "-1"]

\* lastline = 1; assert( len >= 4 ); len -= 2; rc = -1
end_of_text(f) ==
    IF Len(f.buf) < 4 THEN [f EXCEPT !.halt = "abort"]
    ELSE [f EXCEPT !.flag = TRUE, !.buf = SubSeq(@, 1, Len(@) - 2), !.rc = "-1"]

\* a line that starts with '-' and is longer than 2: dash escaped, or armor
dash_line(f, p, n) ==
    IF At(p, 2) = SP /\ f.afx.not_dash_escaped = 0
    THEN IF At(p, 3) # DASH /\ ~(n > 6 /\ HasAt(p, 3, FromTag))
         THEN [FLog(f, "log_info", "invalid dash escaped line") EXCEPT !.afx.buffer_pos = 2]
         ELSE [f EXCEPT !.afx.buffer_pos = 2]
    ELSE IF n >= 15 /\ At(p, 2) = DASH /\ At(p, 3) = DASH /\ At(p, 4) = DASH
    THEN end_of_text(IF is_armor_header(p, n) # BEGIN_SIGNATURE
                     THEN FLog(f, "log_info", "unexpected armor") ELSE f)
    ELSE f

\* the line just read, trimmed
text_line(f, k) ==
    IF k > 2 /\ At(f.afx.buffer, 1) = DASH
    THEN dash_line([f EXCEPT !.afx.buffer = SubSeq(@, 1, k), !.afx.buffer_len = k],
                   SubSeq(f.afx.buffer, 1, k), k)
    ELSE [f EXCEPT !.afx.buffer = SubSeq(@, 1, k), !.afx.buffer_len = k]

\* read the next line
next_text_line(f, r) ==
    IF Len(r.line) = 0
    THEN [f EXCEPT !.afx.buffer_pos = 0, !.afx.buffer = r.line, !.afx.buffer_len = 0,
                   !.pos = r.pos, !.rc = "-1"]
    ELSE text_line([f EXCEPT !.afx.buffer_pos = 0, !.afx.buffer = r.line,
                             !.afx.buffer_len = Len(r.line), !.pos = r.pos,
                             !.afx.truncated = IF r.maxlen = 0 THEN @ + 1 ELSE @],
                   trim_trailing_spaces(r.line, Len(r.line)))

\* if( len >= size ) continue; else read the next line
fake_line_put(f, data, size) ==
    IF Len(f.buf) >= size THEN f
    ELSE next_text_line(f, iobuf_read_line(data, f.pos, MAX_LINELEN))

\* one pass of while( !rc && len < size )
fake_next(f, data, size) ==
    IF f.rc # "0" \/ f.halt # "" \/ Len(f.buf) >= size THEN f
    ELSE IF f.afx.empty # 0 THEN put_emplines(f, size)
    ELSE IF f.afx.faked = 1
    THEN next_text_line([f EXCEPT !.afx.faked = 2], iobuf_read_line(data, f.pos, MAX_LINELEN))
    ELSE fake_line_put(put_line(f, size, Min(size - Len(f.buf),
                                             f.afx.buffer_len - f.afx.buffer_pos)),
                       data, size)

\* every pass but the first puts two bytes at the least
fake_loop(f, data, size) == Loop(LAMBDA s : fake_next(s, data, size), f, size)

\* buf[0] = (len-2) >> 8; buf[1] = (len-2)
set_length_header(f) ==
    [f EXCEPT !.buf[1] = Byte(Shr(Len(f.buf) - 2, 8)), !.buf[2] = Byte(Len(f.buf) - 2)]

\* the ending length header, written only if both bytes of the header are set
put_trailer(f) ==
    [f EXCEPT !.buf = IF f.buf[1] # 0 /\ f.buf[2] # 0 THEN @ \o <<0, 0>> ELSE @,
              !.rc = "0", !.afx.faked = 0, !.afx.in_cleartext = 0, !.afx.buffer_pos = 0]

RECURSIVE sig_header_lines(_, _)
RECURSIVE sig_header_line(_, _)
\* and now read the header lines
sig_header_lines(f, data) == sig_header_line(read_full_line(f, data), data)

sig_header_line(f, data) ==
    IF f.afx.buffer_len = 0 THEN [f EXCEPT !.rc = "-1"]
    ELSE IF parse_header_line(f, f.afx.buffer, f.afx.buffer_len).i > 0
    THEN sig_header_lines(parse_header_line(f, f.afx.buffer, f.afx.buffer_len).f, data)
    ELSE IF parse_header_line(f, f.afx.buffer, f.afx.buffer_len).i = 0 THEN f
    ELSE invalid_armor(parse_header_line(f, f.afx.buffer, f.afx.buffer_len).f)
\* start_radix64 without afx->crc = CRCINIT
start_radix64_keeps_crc(f) ==
    IF f.halt # "" THEN f
    ELSE [f EXCEPT !.afx.inp_checked = 1, !.afx.idx = 0, !.afx.radbuf[1] = 0]

start_radix64(f) ==
    IF f.halt # "" THEN f
    ELSE [f EXCEPT !.afx.inp_checked = 1, !.afx.crc = CRCINIT, !.afx.idx = 0,
                   !.afx.radbuf[1] = 0]

fake_packet_end(f, data) ==
    IF f.halt # "" THEN f
    ELSE IF f.flag THEN start_radix64(sig_header_lines(put_trailer(set_length_header(f)), data))
    ELSE set_length_header(f)

fake_packet(f, data, size) ==
    fake_packet_end(fake_loop([f EXCEPT !.rc = "0", !.flag = FALSE, !.buf = <<0, 0>>],
                              data, size - 3),
                    data)

(***************************************************************************)
(* armor_filter, IOBUFCTRL_UNDERFLOW.  g is the byte that stands in the    *)
(* caller's buffer where the filter does not write; the result is f, with  *)
(* f.buf the first *ret_len bytes of the buffer and f.rc the return value. *)
(***************************************************************************)
\* one pass of for(; n < size && afx->buffer_pos < afx->buffer_len; n++ )
\*                 buf[n++] = afx->buffer[afx->buffer_pos++];
bypass_next(f, size, g) ==
    IF Len(f.buf) >= size \/ f.afx.buffer_pos >= f.afx.buffer_len THEN f
    ELSE [f EXCEPT !.buf = @ \o <<f.afx.buffer[f.afx.buffer_pos + 1], g>>,
                   !.afx.buffer_pos = @ + 1]

bypass_copy(f, size, g) == Loop(LAMBDA s : bypass_next(s, size, g), f, size)

buffer_used_up(f) ==
    IF f.afx.buffer_pos >= f.afx.buffer_len THEN [f EXCEPT !.afx.buffer_len = 0] ELSE f

\* for(; n < size; n++ ) buf[n] = iobuf_get(a), until EOF
read_direct(f, data, k) ==
    IF k <= 0 THEN f
    ELSE [f EXCEPT !.buf = @ \o SubSeq(data, f.pos, f.pos + k - 1), !.pos = @ + k]

bypass_rest(f, data, size) ==
    nothing_is_eof(read_direct(f, data, Min(size - Len(f.buf), Len(data) - f.pos + 1)))

underflow_bypass(f, data, size, g) ==
    IF f.afx.buffer_len # 0
    THEN bypass_rest(buffer_used_up(bypass_copy(f, size, g)), data, size)
    ELSE bypass_rest(f, data, size)

\* one faked onepass signature packet; last is whether no hash is left
onepass_sig_packet(algo, last) ==
    <<144, 13, 3, 1, algo, 0, 0, 0, 0, 0, 0, 0, 0, 0, IF last THEN 1 ELSE 0>>

RECURSIVE onepass_sig_packets(_)
onepass_sig_packets(hashes) ==
    CASE BitAnd(hashes, 1) # 0 ->
            onepass_sig_packet(DIGEST_ALGO_RMD160, hashes = 1)
            \o (IF hashes = 1 THEN <<>> ELSE onepass_sig_packets(hashes - 1))
      [] BitAnd(hashes, 2) # 0 ->
            onepass_sig_packet(DIGEST_ALGO_SHA1, hashes = 2)
            \o (IF hashes = 2 THEN <<>> ELSE onepass_sig_packets(hashes - 2))
      [] BitAnd(hashes, 4) # 0 ->
            onepass_sig_packet(DIGEST_ALGO_MD5, hashes = 4)
            \o (IF hashes = 4 THEN <<>> ELSE onepass_sig_packets(hashes - 4))
      [] BitAnd(hashes, 8) # 0 ->
            onepass_sig_packet(DIGEST_ALGO_TIGER, hashes = 8)
            \o (IF hashes = 8 THEN <<>> ELSE onepass_sig_packets(hashes - 8))
      [] OTHER -> onepass_sig_packet(0, TRUE)

\* the plaintext packet header: type 11, a chunk of 6 bytes: 't', no name, no time
plaintext_header == <<175, 0, 6, 116, 0, 0, 0, 0, 0>>
\* fake_headers without the default to MD5
fake_headers_no_default(f) ==
    [f EXCEPT !.buf = onepass_sig_packets(BitAnd(f.afx.hashes, 15)) \o plaintext_header]

RECURSIVE onepass_sig_packets_tiger_first(_)
\* the faked onepass signature packets with the bits tested from 8 down to 1
onepass_sig_packets_tiger_first(hashes) ==
    CASE BitAnd(hashes, 8) # 0 ->
            onepass_sig_packet(DIGEST_ALGO_TIGER, hashes = 8)
            \o (IF hashes = 8 THEN <<>> ELSE onepass_sig_packets_tiger_first(hashes - 8))
      [] BitAnd(hashes, 4) # 0 ->
            onepass_sig_packet(DIGEST_ALGO_MD5, hashes = 4)
            \o (IF hashes = 4 THEN <<>> ELSE onepass_sig_packets_tiger_first(hashes - 4))
      [] BitAnd(hashes, 2) # 0 ->
            onepass_sig_packet(DIGEST_ALGO_SHA1, hashes = 2)
            \o (IF hashes = 2 THEN <<>> ELSE onepass_sig_packets_tiger_first(hashes - 2))
      [] BitAnd(hashes, 1) # 0 ->
            onepass_sig_packet(DIGEST_ALGO_RMD160, hashes = 1)
      [] OTHER -> onepass_sig_packet(0, TRUE)

\* fake_headers with the packets in the reverse order
fake_headers_tiger_first(f) ==
    [f EXCEPT !.buf = onepass_sig_packets_tiger_first(IF BitAnd(f.afx.hashes, 15) = 0 THEN 4
                                                      ELSE BitAnd(f.afx.hashes, 15))
                      \o plaintext_header]

fake_headers(f) ==
    [f EXCEPT !.buf = onepass_sig_packets(IF BitAnd(f.afx.hashes, 15) = 0 THEN 4
                                          ELSE BitAnd(f.afx.hashes, 15))
                      \o plaintext_header]

\* the branch taken when the input has not been checked yet
underflow_unchecked(f, data, size, g) ==
    IF f.halt # "" THEN f
    ELSE IF f.afx.inp_bypass # 0 THEN nothing_is_eof(buffer_used_up(bypass_copy(f, size, g)))
    ELSE IF f.afx.faked # 0 THEN fake_headers(f)
    ELSE IF f.rc = "0" THEN radix64_read(f, data, size)
    ELSE f

MIN_UNDERFLOW_SIZE == 75    \* 15+(4*15)

armor_underflow(f, data, size, g) ==
    IF f.afx.inp_bypass # 0 THEN underflow_bypass(f, data, size, g)
    ELSE IF size < MIN_UNDERFLOW_SIZE THEN [f EXCEPT !.halt = "abort"]
    ELSE IF f.afx.faked # 0 THEN fake_packet(f, data, size)
    ELSE IF f.afx.inp_checked = 0 THEN underflow_unchecked(check_input(f, data), data, size, g)
    ELSE radix64_read(f, data, size)

(***************************************************************************)
(* armor_filter, IOBUFCTRL_FLUSH and IOBUFCTRL_FREE.  w = [afx, out, log]: *)
(* the context, the bytes written to the iobuf below, and the trace.       *)
(* opt.comment_string is NULL, as it is unless the user sets it.           *)
(***************************************************************************)
\* "Version: GnuPG v" VERSION " (" PRINTABLE_OS_NAME ")\n"
VersionLine == <<86, 101, 114, 115, 105, 111, 110, 58, 32, 71, 110, 117, 80, 71, 32, 118, 48, 46, 57, 46, 48, 32, 40, 71, 78, 85, 47, 76, 105, 110, 117, 120, 41, 10>>

\* "Comment: For info see http://www.gnupg.org\n"
CommentLine ==
    <<67, 111, 109, 109, 101, 110, 116, 58, 32, 70, 111, 114, 32, 105, 110, 102, 111, 32, 115, 101, 101, 32, 104, 116, 116, 112, 58, 47, 47, 119, 119, 119, 46, 103, 110, 117, 112, 103, 46, 111, 114, 103, 10>>

\* the four characters of three bytes
radix64_chars(r0, r1, r2) ==
    <<bintoasc[BitAnd(Shr(r0, 2), 63) + 1],
      bintoasc[BitAnd(BitOr(BitAnd(r0 * 16, 48), BitAnd(Shr(r1, 4), 15)), 63) + 1],
      bintoasc[BitAnd(BitOr(BitAnd(r1 * 4, 60), BitAnd(Shr(r2, 6), 3)), 63) + 1],
      bintoasc[BitAnd(r2, 63) + 1]>>

write_header(w) ==
    IF w.afx.status # 0 THEN w
    ELSE [w EXCEPT !.out = @ \o Dashes \o head_strings[w.afx.what + 1] \o Dashes \o <<LF>>
                           \o VersionLine \o CommentLine
                           \o (IF w.afx.hdrlines = NULL THEN <<>> ELSE w.afx.hdrlines)
                           \o <<LF>>,
                   !.afx.status = @ + 1, !.afx.idx = 0, !.afx.idx2 = 0,
                   !.afx.crc = CRCINIT]

\* if( ++idx2 >= (64/4) ) a line feed
group_written(e) ==
    IF e.idx2 + 1 >= 16 THEN [e EXCEPT !.out = Append(@, LF), !.idx2 = 0]
    ELSE [e EXCEPT !.idx2 = @ + 1]

\* radbuf[idx++] = *buf, and the four characters when three bytes are there
flush_byte(e, b) ==
    IF e.idx + 1 > 2
    THEN group_written([e EXCEPT !.radbuf[3] = b, !.idx = 0,
                                 !.out = @ \o radix64_chars(e.radbuf[1], e.radbuf[2], b)])
    ELSE [e EXCEPT !.radbuf[e.idx + 1] = b, !.idx = @ + 1]

\* e = [out, radbuf, idx, idx2]: the iobuf below and the locals of the loop
flush_bytes(e, buf) == ForEach(flush_byte, e, buf, 1, Len(buf))

\* the locals stored back: radbuf only as far as idx
flushed(w, e, buf) ==
    [w EXCEPT !.out = e.out,
              !.afx.radbuf = [i \in 1..4 |-> IF i <= e.idx THEN e.radbuf[i] ELSE @[i]],
              !.afx.idx = e.idx, !.afx.idx2 = e.idx2,
              !.afx.crc = crc_update(@, buf)]

flush_body(w, buf) ==
    flushed(w, flush_bytes([out |-> w.out, radbuf |-> w.afx.radbuf, idx |-> w.afx.idx,
                            idx2 |-> w.afx.idx2], buf), buf)

armor_flush(w, buf) == flush_body(write_header(w), buf)

\* pad_chars without the bits of the second byte that go into the third character
pad_chars_short(radbuf, idx) ==
    IF idx = 1
    THEN <<bintoasc[BitAnd(Shr(radbuf[1], 2), 63) + 1],
           bintoasc[BitAnd(BitAnd(radbuf[1] * 16, 48), 63) + 1], PAD, PAD>>
    ELSE <<bintoasc[BitAnd(Shr(radbuf[1], 2), 63) + 1],
           bintoasc[BitAnd(BitOr(BitAnd(radbuf[1] * 16, 48), BitAnd(Shr(radbuf[2], 4), 15)),
                           63) + 1],
           bintoasc[1], PAD>>

\* the one or two bytes left, padded
pad_chars(radbuf, idx) ==
    IF idx = 1
    THEN <<bintoasc[BitAnd(Shr(radbuf[1], 2), 63) + 1],
           bintoasc[BitAnd(BitAnd(radbuf[1] * 16, 48), 63) + 1], PAD, PAD>>
    ELSE <<bintoasc[BitAnd(Shr(radbuf[1], 2), 63) + 1],
           bintoasc[BitAnd(BitOr(BitAnd(radbuf[1] * 16, 48), BitAnd(Shr(radbuf[2], 4), 15)),
                           63) + 1],
           bintoasc[BitAnd(BitAnd(radbuf[2] * 4, 60), 63) + 1], PAD>>

free_pad(e) ==
    IF e.idx = 0 THEN e
    ELSE group_written([e EXCEPT !.out = @ \o pad_chars(e.radbuf, e.idx)])

\* may need a linefeed
free_linefeed(e) == IF e.idx2 # 0 THEN [e EXCEPT !.out = Append(@, LF)] ELSE e

\* '=', the CRC, a line feed, and the trailer
free_tail(w, e) ==
    [w EXCEPT !.out = e.out \o <<PAD>>
                      \o radix64_chars(Byte(Shr(w.afx.crc, 16)), Byte(Shr(w.afx.crc, 8)),
                                       Byte(w.afx.crc))
                      \o <<LF>> \o Dashes \o tail_strings[w.afx.what + 1] \o Dashes \o <<LF>>]

armor_free(w) ==
    IF w.afx.status # 0
    THEN [free_tail(w, free_linefeed(free_pad([out |-> w.out, radbuf |-> w.afx.radbuf,
                                               idx |-> w.afx.idx, idx2 |-> w.afx.idx2])))
            EXCEPT !.afx.buffer = NULL]
    ELSE IF w.afx.any_data = 0 /\ w.afx.inp_bypass = 0
    THEN [w EXCEPT !.log = Append(@, [ev |-> "log_error", no |-> 0,
                                      arg |-> "no valid OpenPGP data found."]),
                   !.afx.buffer = NULL]
    ELSE [w EXCEPT !.afx.buffer = NULL]

(***************************************************************************)
(* The iobuf layer above and below the armor filter: it hands the bytes    *)
(* of src to IOBUFCTRL_FLUSH, closes the filter with IOBUFCTRL_FREE, and   *)
(* reads with IOBUFCTRL_UNDERFLOW.  pc is "flush" while the filter is      *)
(* written to, "written" when it was closed, "read" while it is read from, *)
(* "done" when an UNDERFLOW returned anything but 0, "exit" after          *)
(* g10_exit, "abort" after BUG() or a failed assert.                       *)
(***************************************************************************)
Wrote(w, newpc) ==
    /\ afx' = w.afx
    /\ chain' = w.out
    /\ log' = w.log
    /\ pc' = newpc

\* IOBUFCTRL_FLUSH with the next k bytes of src
Flush(k) ==
    /\ pc = "flush"
    /\ k >= 1
    /\ fed + k <= Len(src)
    /\ Wrote(armor_flush([afx |-> afx, out |-> chain, log |-> log],
                         SubSeq(src, fed + 1, fed + k)), "flush")
    /\ fed' = fed + k
    /\ armored' = afx.what
    /\ UNCHANGED <<src, calls>>
    /\ UNCHANGED <<opt, c, pkts, rc, seen, trees>>
    /\ UNCHANGED qlvars

\* IOBUFCTRL_FREE when all of src is written
Free ==
    /\ pc = "flush"
    /\ fed = Len(src)
    /\ Wrote(armor_free([afx |-> afx, out |-> chain, log |-> log]), "written")
    /\ UNCHANGED <<src, calls, fed, armored>>
    /\ UNCHANGED <<opt, c, pkts, rc, seen, trees>>
    /\ UNCHANGED qlvars

\* the written bytes are read back through a new filter:
\* memset( &afx, 0, sizeof afx) and iobuf_push_filter( a, armor_filter, &afx )
ReadBack ==
    /\ pc = "written"
    /\ afx' = NewAfx(0, 0)
    /\ pc' = "read"
    /\ UNCHANGED <<chain, src, calls, fed, armored, log>>
    /\ UNCHANGED <<opt, c, pkts, rc, seen, trees>>
    /\ UNCHANGED qlvars

\* an UNDERFLOW call as its caller sees it: the size given, the rc and the
\* *ret_len bytes got, and whether fake_packet served the call.  Of a call
\* that did not return, rc is how the process ended and there are no bytes.
CallOf(f, size, faked) ==
    IF f.halt # "" THEN [size |-> size, rc |-> f.halt, buf |-> <<>>, faked |-> faked]
    ELSE [size |-> size, rc |-> f.rc, buf |-> f.buf, faked |-> faked]

Returned(f, size, faked) ==
    /\ afx' = f.afx
    /\ chain' = SubSeq(chain, f.pos, Len(chain))
    /\ log' = f.log
    /\ pc' = IF f.halt # "" THEN f.halt ELSE IF f.rc = "0" THEN "read" ELSE "done"
    /\ calls' = Append(calls, CallOf(f, size, faked))

\* IOBUFCTRL_UNDERFLOW with a buffer of size bytes that holds g where the
\* call does not write it
Underflow(size, g) ==
    /\ pc = "read"
    /\ Returned(armor_underflow([afx |-> afx, pos |-> 1, log |-> log, halt |-> "",
                                 rc |-> "0", buf |-> <<>>, flag |-> FALSE],
                                chain, size, g),
                size, afx.inp_bypass = 0 /\ afx.faked # 0)
    /\ UNCHANGED <<src, fed, armored>>
    /\ UNCHANGED <<opt, c, pkts, rc, seen, trees>>
    /\ UNCHANGED qlvars

\* the filter starts on one of the inputs: what there is to write, what
\* there is to read, and the armor kind that was written under
InitArmor(whats, inputs, start) ==
    /\ opt = Opt(FALSE, FALSE, FALSE)
    /\ c = proc_packets
    /\ pkts = <<>>
    /\ pc = start
    /\ rc = "0"
    /\ seen = <<>>
    /\ log = <<>>
    /\ trees = <<>>
    /\ afx \in {NewAfx(w, 0) : w \in whats}
    /\ \E in \in inputs : src = in.src /\ chain = in.chain /\ armored = in.armored
    /\ calls = <<>>
    /\ fed = 0
    /\ ql = NULL

(***************************************************************************)
(* SpecArmor: a byte sequence is written through the filter in pieces,     *)
(* under each of the seven armor kinds, and read back through a new        *)
(* filter with each sequence of buffer sizes.  The byte sequences are all  *)
(* short ones over three bytes, under every armor kind, and longer ones    *)
(* whose lengths lie around the 48 bytes of an armor line and around the   *)
(* buffer sizes.                                                           *)
(***************************************************************************)
MaxShortBody == 2   \* longest of the short byte sequences
MaxBody == 77       \* longest byte sequence
MaxFlush == 3       \* most bytes of a FLUSH call that does not write all
MaxSize == 77       \* largest UNDERFLOW buffer

Body(n) == [i \in 1..n |-> (i * 37 + 11) % 256]

LongLens == (46..49) \cup ((MIN_UNDERFLOW_SIZE - 1)..MaxBody)

ShortBodies == SeqsUpTo({0, 45, 255}, MaxShortBody)

LongBodies == {Body(n) : n \in LongLens}

ReadSizes == (MIN_UNDERFLOW_SIZE - 1)..MaxSize

Unwritten(bodies) == {[src |-> b, chain |-> <<>>, armored |-> -1] : b \in bodies}

InitRoundTrip ==
    \/ InitArmor(0..6, Unwritten(ShortBodies), "flush")
    \/ InitArmor({0}, Unwritten(LongBodies), "flush")

NextArmor ==
    \/ \E k \in (1..MaxFlush) \cup {Len(src) - fed} : Flush(k)
    \/ Free
    \/ ReadBack
    \/ \E size \in ReadSizes : Underflow(size, 0)

SpecArmor == InitRoundTrip /\ [][NextArmor]_vars

(***************************************************************************)
(* SpecDearmor: armored messages, as the filter writes them and with the   *)
(* CRC line or a header line damaged, are read with each sequence of       *)
(* buffer sizes.                                                           *)
(***************************************************************************)
MaxDearmorShort == 2    \* longest of the short armored bodies
MaxDearmorBody == 76    \* longest armored body

\* what FLUSH and FREE write for the bytes b under an armor kind
Armored(b, what) ==
    armor_free(armor_flush([afx |-> NewAfx(what, 0), out |-> <<>>, log |-> <<>>], b)).out

\* where the line feed of the CRC line stands in an armored text, and where
\* the blank line that ends the header lines
CrcEnd(text, what) == Len(text) - (Len(tail_strings[what + 1]) + 11)

HeaderEnd(what) == Len(head_strings[what + 1]) + 11 + Len(VersionLine) + Len(CommentLine) + 1

\* another radix64 character
OtherChar(ch) == IF ch = bintoasc[1] THEN bintoasc[2] ELSE bintoasc[1]

Damages ==
    {"none", "crc last", "crc first", "crc malformed", "crc cut", "crc missing",
     "header", "body"}

Damaged(text, what, damage) ==
    CASE damage = "crc last" -> [text EXCEPT ![CrcEnd(text, what) - 1] = OtherChar(@)]
      [] damage = "crc first" -> [text EXCEPT ![CrcEnd(text, what) - 4] = OtherChar(@)]
      [] damage = "crc malformed" -> [text EXCEPT ![CrcEnd(text, what) - 2] = 42]
      [] damage = "crc cut" -> SubSeq(text, 1, CrcEnd(text, what) - 3)
      [] damage = "crc missing" -> SubSeq(text, 1, CrcEnd(text, what) - 5)
      [] damage = "header" -> [text EXCEPT ![Len(head_strings[what + 1]) + 11 + 8] = 120]
      [] damage = "body" -> SubSeq(text, 1, HeaderEnd(what)) \o <<42>>
                            \o SubSeq(text, HeaderEnd(what) + 1, Len(text))
      [] OTHER -> text

DearmorBodies ==
    SeqsUpTo({0, 255}, MaxDearmorShort)
    \cup {Body(n) : n \in (MIN_UNDERFLOW_SIZE - 1)..MaxDearmorBody}

DearmorInputs ==
    {[src |-> b, chain |-> Damaged(Armored(b, 0), 0, d), armored |-> 0] :
        b \in DearmorBodies, d \in Damages}

InitDearmor == InitArmor({0}, DearmorInputs, "read")

NextDearmor == \E size \in MIN_UNDERFLOW_SIZE..MaxSize : Underflow(size, 0)

SpecDearmor == InitDearmor /\ [][NextDearmor]_vars

(***************************************************************************)
(* SpecClear: clear-signed messages are read with each sequence of buffer  *)
(* sizes.  A message is the BEGIN PGP SIGNED MESSAGE line, no header line  *)
(* or a Hash or a NotDashEscaped header line, the blank line, the lines of *)
(* the text, and an armored signature.  src is the text, line feeds        *)
(* included.  The lines are plain, empty, with white space at the end,     *)
(* with a carriage return, dash escaped in the regular and in another way, *)
(* and long enough to fill a buffer.                                       *)
(***************************************************************************)
MaxClearLines == 2      \* most lines of a text of short lines
MaxClearLine == 72      \* longest line
MaxClearSize == 76      \* largest UNDERFLOW buffer

ShortLines ==
    {<<97, 98>>, <<97, 32, 9>>, <<>>, <<98, 13>>, <<45, 32, 45, 99>>, <<45, 32, 100>>, <<45, 101>>}

\* a line of n letters
LongLine(n) == [i \in 1..n |-> 97 + (i % 26)]

RECURSIVE TextOf(_)
\* the lines, each with its line feed
TextOf(lines) == IF lines = <<>> THEN <<>> ELSE Head(lines) \o <<LF>> \o TextOf(Tail(lines))

ClearTexts ==
    {TextOf(ls) : ls \in SeqsUpTo(ShortLines, MaxClearLines)}
    \cup {TextOf(<<LongLine(n), <<45, 32, 45, 99>>>>) : n \in (MIN_UNDERFLOW_SIZE - 10)..MaxClearLine}
    \cup {TextOf(<<<<97, 98>>, LongLine(n)>>) : n \in (MIN_UNDERFLOW_SIZE - 10)..MaxClearLine}

ClearHeaders == {<<>>, <<72, 97, 115, 104, 58, 32, 83, 72, 65, 49, 10>>, <<78, 111, 116, 68, 97, 115, 104, 69, 115, 99, 97, 112, 101, 100, 58, 32, 49, 10>>}

\* the armored signature: three bytes stand for the signature packet
ClearSigned(header, text) ==
    Dashes \o head_strings[BEGIN_SIGNED_MSG_IDX + 1] \o Dashes \o <<LF>> \o header \o <<LF>>
    \o text \o Armored(<<136, 1, 0>>, BEGIN_SIGNATURE)

ClearInputs ==
    {[src |-> t, chain |-> ClearSigned(h, t), armored |-> BEGIN_SIGNED_MSG_IDX] :
        t \in ClearTexts, h \in ClearHeaders}

InitClear == InitArmor({0}, ClearInputs, "read")

NextClear == \E size \in MIN_UNDERFLOW_SIZE..MaxClearSize : Underflow(size, 0)

SpecClear == InitClear /\ [][NextClear]_vars

(***************************************************************************)
(* SpecBypass: binary data, which starts with the CTB of a public key      *)
(* packet, is read with each sequence of buffer sizes, small ones too.     *)
(* Where a call leaves the caller's buffer unwritten, a byte stands there  *)
(* that the caller cannot know: one of two in the model.                   *)
(***************************************************************************)
MaxStream == 3          \* most bytes after the CTB
MaxSmallSize == 2       \* largest of the small UNDERFLOW buffers
MaxBypassSize == 76     \* largest UNDERFLOW buffer

StaleBytes == {0, 255}

Streams == {<<153>> \o t : t \in SeqsUpTo({0, LF, 65}, MaxStream)}

BypassInputs == {[src |-> t, chain |-> t, armored |-> -1] : t \in Streams}

BypassSizes == (1..MaxSmallSize) \cup (MIN_UNDERFLOW_SIZE..MaxBypassSize)

InitBypass == InitArmor({0}, BypassInputs, "read")

NextBypass == \E size \in BypassSizes, g \in StaleBytes : Underflow(size, g)

SpecBypass == InitBypass /\ [][NextBypass]_vars

(***************************************************************************)
(* Vocabulary of the armor claims.                                         *)
(***************************************************************************)
RECURSIVE Concat(_)
Concat(ss) == IF ss = <<>> THEN <<>> ELSE Head(ss) \o Concat(Tail(ss))

\* the bytes the UNDERFLOW calls have returned, in order
Delivered == Concat([i \in 1..Len(calls) |-> calls[i].buf])

IsPrefix(s, t) == Len(s) <= Len(t) /\ SubSeq(t, 1, Len(s)) = s

\* the filter is read from, or was
ReadFrom == pc \in {"read", "done", "exit", "abort"}

\* every UNDERFLOW call so far came with a buffer of the minimum size
SizesAtLeastMin == \A i \in 1..Len(calls) : calls[i].size >= MIN_UNDERFLOW_SIZE

\* the calls so far returned the bytes of b in order and no error: every rc
\* is 0 or the EOF, and when a call has returned anything but 0 all of b is
\* delivered
ReturnsExactly(b) ==
    /\ \A i \in 1..Len(calls) : calls[i].rc \in {"0", "-1"}
    /\ IsPrefix(Delivered, b)
    /\ pc = "done" => Delivered = b

Logged(msgs) == \E i \in 1..Len(log) : log[i].ev = "log_error" /\ log[i].arg \in msgs

\* write_status( STATUS_BADARMOR ) has been called
BadArmorWritten ==
    \E i \in 1..Len(log) : log[i].ev = "write_status" /\ log[i].arg = "STATUS_BADARMOR"

LastCall == calls[Len(calls)]

\* C6 as stated: when the four characters of the CRC differ from the running
\* CRC of the decoded bytes, the UNDERFLOW call that reads the CRC returns
\* InvalidArmor, also when it decoded no byte before the '='.
C6_CrcMismatchInvalidArmor ==
    Logged({"CRC error"}) => LastCall.rc = G10ERR_INVALID_ARMOR

\* the call that found the CRC of a 75 byte body wrong decoded no byte, the
\* call before it having filled its buffer, and returned the EOF
C6_Witness ==
    /\ Logged({"CRC error"})
    /\ Len(calls) = 2
    /\ Len(calls[1].buf) = MIN_UNDERFLOW_SIZE
    /\ LastCall.buf = <<>>
    /\ LastCall.rc = "-1"

HeaderErrors ==
    {"invalid armor header", "invalid clearsig header", "nested clear text signatures"}

CrcErrors == {"premature eof (in CRC)", "malformed CRC", "CRC error"}

ChunkText(call) == SubSeq(call.buf, 3, 2 + call.buf[1] * 256 + call.buf[2])

FakedCalls == {i \in 1..Len(calls) : calls[i].faked}

\* fake_packet has met the line that ends the text, and returned
TextEnded == FakedCalls # {} /\ afx.faked = 0 /\ pc \in {"read", "done"}

\* the payload of the faked literal packet: the texts of the chunks in order
Payload == Concat([i \in 1..Len(calls) |-> IF calls[i].faked THEN ChunkText(calls[i]) ELSE <<>>])

\* the text of a chunk less the CR LF that ends it, if it is not the last
ChunkLessEnd(i) ==
    IF \E j \in FakedCalls : j > i
    THEN SubSeq(ChunkText(calls[i]), 1, Len(ChunkText(calls[i])) - 2)
    ELSE ChunkText(calls[i])

PayloadLessChunkEnds ==
    Concat([i \in 1..Len(calls) |-> IF calls[i].faked THEN ChunkLessEnd(i) ELSE <<>>])

RECURSIVE LinesOf(_)
\* the lines of a text, without their line feeds
LinesOf(text) ==
    IF text = <<>> THEN <<>>
    ELSE <<SubSeq(text, 1, find_byte(text, 1, {LF}) - 1)>>
         \o LinesOf(SubSeq(text, find_byte(text, 1, {LF}) + 1, Len(text)))

RECURSIVE Stripped(_)
\* a line without the SP, TAB and CR at its end
Stripped(line) ==
    IF line # <<>> /\ line[Len(line)] \in {SP, TAB, CR}
    THEN Stripped(SubSeq(line, 1, Len(line) - 1))
    ELSE line

\* a stripped line without its leading "- ", unless NotDashEscaped was given
Unescaped(line) ==
    IF afx.not_dash_escaped = 0 /\ HasAt(line, 1, <<DASH, SP>>)
    THEN SubSeq(line, 3, Len(line))
    ELSE line

\* the lines as the digest is to see them, each followed by CR LF
CanonicalLines(text) ==
    Concat([i \in 1..Len(LinesOf(text)) |-> Unescaped(Stripped(LinesOf(text)[i])) \o <<CR, LF>>])

C9_BypassCopies ==
    afx.inp_bypass # 0 => IsPrefix(Delivered, src) /\ (pc = "done" => Delivered = src)

\* the first call has returned the two bytes of the source with a stale byte
\* after each of them
C9_Witness ==
    /\ afx.inp_bypass # 0
    /\ Len(src) = 2
    /\ Len(calls) = 1
    /\ \E g \in StaleBytes : calls[1].buf = <<src[1], g, src[2], g>>

(***************************************************************************)
(* The list of qualified certificates (qualified.c 40-175).  ql is the     *)
(* module's state and its surroundings: disk is the list file (open is 0   *)
(* or the errno of fopen), listname and listfp are the two statics (listfp *)
(* is NULL or holds the read position), fpr is the hex string of the       *)
(* certificate's fingerprint (NULL if it cannot be had), key, country, lnr *)
(* and err are the locals of gpgsm_is_in_qualified_list, results are the   *)
(* values the calls returned, build is what the build makes of the write   *)
(* past the end of country.                                                *)
(***************************************************************************)
HASH == 35          \* '#'

LINE_SIZE == 256    \* char line[256]

FPR_LEN == 40

GPG_ERR_EOF == "GPG_ERR_EOF"

GPG_ERR_NOT_FOUND == "GPG_ERR_NOT_FOUND"

GPG_ERR_BAD_DATA == "GPG_ERR_BAD_DATA"

GPG_ERR_LINE_TOO_LONG == "GPG_ERR_LINE_TOO_LONG"

GPG_ERR_INCOMPLETE_LINE == "GPG_ERR_INCOMPLETE_LINE"

GPG_ERR_GENERAL == "GPG_ERR_GENERAL"

spacep(ch) == ch \in {SP, TAB}

hexdigitp(ch) == ch \in (48..57) \cup (65..70) \cup (97..102)

\* p[i] >= 'a'? (p[i] & 0xdf): p[i]
upcase(ch) == IF ch >= 97 THEN BitAnd(ch, 223) ELSE ch

QLog(q, msg) == [q EXCEPT !.log = Append(@, [msg |-> msg, lnr |-> q.lnr])]

\* fgets( line, n, fp ): the position of the last byte read, at most n - 1
\* bytes up to and with the LF
fgets_end(file, pos, n) == Min(Min(find_byte(file, pos, {LF}), Len(file)), pos + n - 2)

\* Eat until end of line
eat_line(file, pos) == Min(find_byte(file, pos, {LF}) + 1, Len(file) + 1)

RECURSIVE next_line(_, _)
RECURSIVE line_got(_, _, _)
RECURSIVE line_checked(_, _, _)
\* the do ... while loop of read_list: r = [pos, lnr, err, p], p the line
\* from its first byte that is no space
next_line(file, r) ==
    IF r.pos > Len(file) THEN [r EXCEPT !.err = GPG_ERR_EOF]
    ELSE line_got(file, r, SubSeq(file, r.pos, fgets_end(file, r.pos, LINE_SIZE - 1)))

line_got(file, r, line) ==
    IF CStr(line) = <<>> \/ CStr(line)[Len(CStr(line))] # LF
    THEN [r EXCEPT !.err = IF line[1] # NUL THEN GPG_ERR_LINE_TOO_LONG
                           ELSE GPG_ERR_INCOMPLETE_LINE,
                   !.pos = eat_line(file, r.pos + Len(line))]
    ELSE line_checked(file, [r EXCEPT !.pos = @ + Len(line), !.lnr = @ + 1],
                      CStr(SubSeq(line, skip_bytes(line, 1, {SP, TAB}), Len(line))))

line_checked(file, r, p) ==
    IF At(p, 1) \in {NUL, LF, HASH} THEN next_line(file, r) ELSE [r EXCEPT !.p = p]

\* one pass of for (i=j=0; (p[i] == ':' || hexdigitp (p+i)) && j < 40; i++)
key_step(p, s) ==
    IF (At(p, s.i) = COLON \/ hexdigitp(At(p, s.i))) /\ Len(s.key) < FPR_LEN
    THEN [i |-> s.i + 1,
          key |-> IF At(p, s.i) = COLON THEN s.key ELSE Append(s.key, upcase(At(p, s.i)))]
    ELSE s

parse_key(p) == Loop(LAMBDA s : key_step(p, s), [i |-> 1, key |-> <<>>], Len(p))

\* country[0] = p[i]; country[1] = p[i+1]; country[2] = 0, with country the
\* char country[2] of the caller: the third write goes past its end, into
\* the padding, into key[0], into the low byte of lnr, or into the guard of
\* the stack, as the build has laid the locals out
country_stored(q, a, b) ==
    CASE q.build = "key" -> [q EXCEPT !.country = <<a, b>>, !.key[1] = NUL]
      [] q.build = "lnr" -> [q EXCEPT !.country = <<a, b>>, !.lnr = @ - (@ % 256)]
      [] q.build = "guard" -> [q EXCEPT !.country = <<a, b>>, !.smashed = TRUE]
      [] OTHER -> [q EXCEPT !.country = <<a, b>>]

\* the country code, from position i of the line
parse_country(q, p, i) ==
    IF /\ At(p, i) \in 97..122
       /\ At(p, i + 1) \in 97..122
       /\ (spacep(At(p, i + 2)) \/ At(p, i + 2) = LF)
    THEN country_stored(q, At(p, i), At(p, i + 1))
    ELSE [QLog(q, "invalid country code") EXCEPT !.err = GPG_ERR_BAD_DATA]

key_parsed(q, p, k) ==
    IF Len(k.key) # FPR_LEN \/ ~(spacep(At(p, k.i)) \/ At(p, k.i) = LF)
    THEN [QLog([q EXCEPT !.key = k.key], "invalid formatted fingerprint") EXCEPT
            !.err = GPG_ERR_BAD_DATA]
    ELSE parse_country([q EXCEPT !.key = k.key], p, skip_bytes(p, k.i + 1, {SP, TAB}))

\* read_list after the line is read
entry_read(q, r) ==
    IF r.err # "0" THEN [q EXCEPT !.listfp = <<r.pos>>, !.lnr = r.lnr, !.err = r.err]
    ELSE key_parsed([q EXCEPT !.listfp = <<r.pos>>, !.lnr = r.lnr], r.p, parse_key(r.p))

\* if (!listname): the file is opened once
open_list(q) ==
    IF q.listname # NULL THEN q
    ELSE [q EXCEPT !.listname = <<"qualified.txt">>,
                   !.listfp = IF q.disk.open = "0" THEN <<1>> ELSE NULL]

list_opened(q) ==
    IF q.listfp = NULL THEN [q EXCEPT !.err = GPG_ERR_EOF]
    ELSE entry_read(q, next_line(q.disk.content,
                                 [pos |-> q.listfp[1], lnr |-> q.lnr, err |-> "0", p |-> <<>>]))

read_list(q) ==
    IF q.listname = NULL /\ q.disk.open \notin {"0", "ENOENT"}
    THEN [QLog(open_list(q), "can't open") EXCEPT !.err = q.disk.open,
                                                  !.key = <<>>, !.country = <<>>]
    ELSE list_opened([open_list(q) EXCEPT !.err = "0", !.key = <<>>, !.country = <<>>])

RECURSIVE scan_list(_)
RECURSIVE entry_compared(_)
\* while (!(err = read_list (key, country, &lnr))) if (!strcmp (key, fpr)) break
scan_list(q) == entry_compared(read_list(q))

entry_compared(q) ==
    IF q.err # "0" \/ CStr(q.key) = q.fpr THEN q ELSE scan_list(q)

\* what the call returns; a build that guards its stack does not return
\* from a call that has written past country
list_result(q) ==
    IF q.smashed THEN "abort"
    ELSE IF q.err = GPG_ERR_EOF THEN GPG_ERR_NOT_FOUND
    ELSE q.err

list_returned(q) == [q EXCEPT !.results = Append(@, list_result(q))]

gpgsm_is_in_qualified_list(q) ==
    IF q.fpr = NULL THEN [q EXCEPT !.results = Append(@, GPG_ERR_GENERAL)]
    ELSE list_returned(scan_list([q EXCEPT !.lnr = 0, !.smashed = FALSE,
                                           !.listfp = IF @ # NULL THEN <<1>> ELSE @]))

(***************************************************************************)
(* SpecList: calls of gpgsm_is_in_qualified_list on list files of a few    *)
(* lines: entries for two fingerprints, in upper case and in lower case    *)
(* with colons, a comment, an empty line, a fingerprint one digit short, a *)
(* country code in upper case and a line longer than the line buffer; with *)
(* and without the last line feed; no file, and a file that cannot be      *)
(* opened.                                                                 *)
(***************************************************************************)
MaxListLines == 2   \* most lines of a list file
MaxListCalls == 2   \* most calls of gpgsm_is_in_qualified_list

HexUpper == <<48, 49, 50, 51, 52, 53, 54, 55, 56, 57, 65, 66, 67, 68, 69, 70>>

FprOf(seed) == [i \in 1..FPR_LEN |-> HexUpper[((i * seed) % 16) + 1]]

Lower(s) == [i \in 1..Len(s) |-> IF s[i] \in 65..70 THEN s[i] + 32 ELSE s[i]]

\* a colon after every two digits but the last two
Coloned(s) ==
    [k \in 1..(Len(s) + (Len(s) \div 2) - 1) |-> IF k % 3 = 0 THEN COLON ELSE s[k - (k \div 3)]]

EntryLine(fp, cc) == fp \o <<SP>> \o cc \o <<LF>>

ListLines ==
    {EntryLine(FprOf(7), <<100, 101>>),
     EntryLine(Coloned(Lower(FprOf(7))), <<100, 101>>),
     EntryLine(FprOf(5), <<98, 101>>),
     <<HASH, SP, 120, LF>>,
     <<LF>>,
     EntryLine(SubSeq(FprOf(7), 1, FPR_LEN - 1), <<100, 101>>),
     EntryLine(FprOf(7), <<68, 69>>),
     [i \in 1..LINE_SIZE |-> 65] \o <<LF>>}

ListTexts == {Concat(lines) : lines \in SeqsUpTo(ListLines, MaxListLines)}

ListDisks ==
    {[open |-> "0", content |-> t] : t \in ListTexts}
    \cup {[open |-> "0", content |-> SubSeq(t, 1, Len(t) - 1)] : t \in ListTexts \ {<<>>}}
    \cup {[open |-> e, content |-> <<>>] : e \in {"ENOENT", "EACCES"}}

ListBuilds == {"pad", "key", "lnr", "guard"}

NewQl(disk, fpr, build) ==
    [disk |-> disk, listname |-> NULL, listfp |-> NULL, fpr |-> fpr, build |-> build,
     key |-> <<>>, country |-> <<>>, lnr |-> 0, err |-> "0", smashed |-> FALSE,
     results |-> <<>>, log |-> <<>>]

InitList ==
    /\ opt = Opt(FALSE, FALSE, FALSE)
    /\ c = proc_packets
    /\ pkts = <<>>
    /\ pc = "list"
    /\ rc = "0"
    /\ seen = <<>>
    /\ log = <<>>
    /\ trees = <<>>
    /\ afx = NULL
    /\ chain = <<>>
    /\ src = <<>>
    /\ calls = <<>>
    /\ fed = 0
    /\ armored = -1
    /\ ql \in {NewQl(d, f, b) : d \in ListDisks, f \in {FprOf(7), FprOf(3), NULL},
                               b \in ListBuilds}

\* one call of gpgsm_is_in_qualified_list
QualifiedCall ==
    /\ pc = "list"
    /\ Len(ql.results) < MaxListCalls
    /\ ql' = gpgsm_is_in_qualified_list(ql)
    /\ pc' = IF list_result(ql') = "abort" /\ ql.fpr # NULL THEN "abort" ELSE "list"
    /\ UNCHANGED <<opt, c, pkts, rc, seen, log, trees>>
    /\ UNCHANGED armvars

NextList == QualifiedCall

SpecList == InitList /\ [][NextList]_vars

\* the fingerprint that a line of the list file gives: the hex digits at its
\* head, after the leading spaces, without the colons, in upper case
LineDigits(p) ==
    SelectSeq(SubSeq(p, 1, skip_bytes(p, 1, {COLON} \cup (48..57) \cup (65..70) \cup (97..102)) - 1),
              LAMBDA ch : ch # COLON)

LineFpr(line) ==
    [i \in 1..Len(LineDigits(SubSeq(line, skip_bytes(line, 1, {SP, TAB}), Len(line)))) |->
        upcase(LineDigits(SubSeq(line, skip_bytes(line, 1, {SP, TAB}), Len(line)))[i])]

\* the list file has an entry with the fingerprint of the certificate
Listed ==
    /\ ql.disk.open = "0"
    /\ \E i \in 1..Len(LinesOf(ql.disk.content)) : LineFpr(LinesOf(ql.disk.content)[i]) = ql.fpr

\* C12 as stated: every call of gpgsm_is_in_qualified_list returns 0 if the
\* list file has an entry with the fingerprint of the certificate, colons
\* ignored and case ignored, and GPG_ERR_NOT_FOUND if it has none or there is
\* no list file, whatever the list holds, the first call and the later ones.
C12_FoundIffListed ==
    (ql # NULL /\ ql.fpr # NULL) =>
        \A k \in 1..Len(ql.results) :
            ql.results[k] = IF Listed THEN "0" ELSE GPG_ERR_NOT_FOUND

\* the list is one well-formed entry for the certificate, and the call has
\* returned GPG_ERR_NOT_FOUND: the write past country has emptied key
C12_Witness ==
    /\ ql # NULL
    /\ ql.disk = [open |-> "0", content |-> EntryLine(FprOf(7), <<100, 101>>)]
    /\ ql.fpr = FprOf(7)
    /\ ql.build = "key"
    /\ ql.results = <<GPG_ERR_NOT_FOUND>>

(***************************************************************************)
(* The lists of the sequencer and the tree processor.  trees holds, in     *)
(* order, every list release_list has handed to proc_tree.                 *)
(***************************************************************************)
\* parse_packet is about to deliver a packet of one of the types
NextIs(types) == pkts # <<>> /\ Head(pkts).rc = "0" /\ Head(pkts).pkttype \in types

\* the next step of the loop ends the run: EOF, InvalidPacket or Unexpected
RunEnding ==
    \/ pkts = <<>>
    \/ Head(pkts).rc = G10ERR_INVALID_PACKET
    \/ SigsOnlyMode /\ NextIs(SigsOnlyRejectTypes)
    \/ EncryptOnlyMode /\ NextIs(EncryptOnlyRejectTypes)

\* a PublicKey or SecretKey arrives in full mode
KeyArrives == FullMode /\ NextIs(KeyTypes)

\* a OnePassSig arrives while a list with another root is open
OnePassInTheWay ==
    /\ ~opt.list_packets
    /\ NextIs({"PKT_ONEPASS_SIG"})
    /\ c.list # NULL
    /\ c.list[1].pkttype # "PKT_ONEPASS_SIG"

\* this step hands the open list to the tree processor
ListHanded == c.list # NULL /\ trees' = Append(trees, c.list)

\* this step takes the open list away
ListGone == c.list # NULL /\ ~IsPrefix(c.list, c'.list)

\* a step hands over nothing but the open list, once, and takes no list away
\* that it does not hand over; a run that returns leaves no list, no dek and
\* no digest context
HandedOnceAndCleanedUp ==
    /\ trees' = trees \/ ListHanded
    /\ ListGone => ListHanded
    /\ pc' = "done" => c'.list = NULL /\ c'.dek = NULL /\ c'.mfx = NULL

\* C13 as stated: every list opened during a run is handed to the tree
\* processor exactly once, when a PublicKey or SecretKey arrives in full mode
\* or when the run ends by EOF, InvalidPacket or Unexpected, and at no other
\* time; when do_proc_packets returns the list is empty, the dek is released
\* and the digest context is freed.
C13_HandedAtKeyOrEnd ==
    [][/\ HandedOnceAndCleanedUp
       /\ (c.list # NULL /\ pc = "run") => (ListHanded <=> (KeyArrives \/ RunEnding))]_vars

\* C13 as amended: every list opened during a run is handed to the tree
\* processor exactly once, when a PublicKey or SecretKey arrives in full mode,
\* when a OnePassSig arrives while the open list has another root, or when
\* the run ends by EOF, InvalidPacket or Unexpected; when do_proc_packets
\* returns the list is empty, the dek is released and the digest context is
\* freed.
C13_HandedAtKeyOnePassOrEnd ==
    [][/\ HandedOnceAndCleanedUp
       /\ (c.list # NULL /\ pc = "run") =>
              (ListHanded <=> (KeyArrives \/ OnePassInTheWay \/ RunEnding))]_vars

\* a full-mode run has returned after a Signature, a PublicKey and a OnePassSig:
\* the key and the OnePassSig have each flushed the list before them
C13_Witness ==
    /\ FullMode
    /\ pc = "done"
    /\ Len(seen) = 3
    /\ ParsedAs(1, {"PKT_SIGNATURE"})
    /\ ParsedAs(2, {"PKT_PUBLIC_KEY"})
    /\ ParsedAs(3, {"PKT_ONEPASS_SIG"})
    /\ Len(trees) = 2
    /\ c.list = NULL

(***************************************************************************)
(* SpecTail: armored messages with a correct body are read, with each      *)
(* sequence of buffer sizes, after something was done to what follows the  *)
(* '=' of the CRC line: the text is cut after the '=' or after one to four *)
(* of the CRC characters, one of the four characters is replaced by a '*', *)
(* the text ends with the line feed of the CRC line, or another line       *)
(* stands where the END line stood.  Here src is the text as it is given   *)
(* to the reader.                                                          *)
(***************************************************************************)
MaxTailShort == 2   \* longest of the short armored bodies
MaxTailBody == 76   \* longest armored body
MaxTailSize == 76   \* largest UNDERFLOW buffer

\* "hello\n"
OtherLine == <<104, 101, 108, 108, 111, 10>>

\* the text cut after k of the CRC characters
CutInCrc(text, k) == SubSeq(text, 1, CrcEnd(text, 0) - 5 + k)

\* the text with a '*' for the k-th CRC character
BadInCrc(text, k) == [text EXCEPT ![CrcEnd(text, 0) - 5 + k] = 42]

\* the text up to the line feed of the CRC line
NoEndLine(text) == SubSeq(text, 1, CrcEnd(text, 0))

TailBodies ==
    SeqsUpTo({0, 255}, MaxTailShort)
    \cup {Body(n) : n \in MIN_UNDERFLOW_SIZE..MaxTailBody}

TailTexts == {Armored(b, 0) : b \in TailBodies}

CutTexts(ks) == {CutInCrc(t, k) : t \in TailTexts, k \in ks}

BadTexts == {BadInCrc(t, k) : t \in TailTexts, k \in 1..4}

EndLessTexts == {NoEndLine(t) : t \in TailTexts} \cup {NoEndLine(t) \o OtherLine : t \in TailTexts}

TailInputs ==
    {[src |-> t, chain |-> t, armored |-> 0] :
        t \in TailTexts \cup CutTexts(0..4) \cup BadTexts \cup EndLessTexts}

InitTail == InitArmor({0}, TailInputs, "read")

NextTail == \E size \in MIN_UNDERFLOW_SIZE..MaxTailSize : Underflow(size, 0)

SpecTail == InitTail /\ [][NextTail]_vars

\* a call has returned InvalidArmor, or the process has ended in invalid_armor
FatalArmorError ==
    \/ pc = "exit"
    \/ \E i \in 1..Len(calls) : calls[i].rc = G10ERR_INVALID_ARMOR

\* C14 as stated: an armored region whose CRC is correct but whose END line
\* is missing, the end of the data or another line following the CRC line,
\* is a fatal armor error.
C14_MissingEndLineFatal ==
    (src \in EndLessTexts /\ pc \in {"done", "exit"}) => FatalArmorError

\* the text ended with the line feed of a correct CRC line, the body came
\* back and the EOF after it, and nothing was logged
C14_Witness ==
    /\ src = NoEndLine(Armored(<<0, 255>>, 0))
    /\ pc = "done"
    /\ Delivered = <<0, 255>>
    /\ LastCall.rc = "-1"
    /\ log = <<>>

\* a call has returned InvalidArmor
InvalidArmorReturned == \E i \in 1..Len(calls) : calls[i].rc = G10ERR_INVALID_ARMOR

\* C16 as stated: after the '=' of the CRC line exactly four radix-64
\* characters are read as the CRC.  When the data end between the '=' and the
\* fourth of them, or one of the four is not of the alphabet, the call
\* returns InvalidArmor; a complete and correct CRC is accepted whatever
\* follows it, the end of the data included.
C16_FourCrcChars ==
    pc = "done" =>
        /\ src \in CutTexts(0..3) \cup BadTexts => InvalidArmorReturned
        /\ src \in TailTexts \cup EndLessTexts \cup CutTexts({4}) =>
               ~InvalidArmorReturned /\ log = <<>>

\* the text ended with the '=' of the CRC line: the body came back with rc 0,
\* the next call returned the EOF, and only 'premature eof (no CRC)' was logged
C16_Witness ==
    /\ src = CutInCrc(Armored(<<0, 255>>, 0), 0)
    /\ pc = "done"
    /\ Len(calls) = 2
    /\ calls[1].rc = "0"
    /\ calls[1].buf = <<0, 255>>
    /\ LastCall.rc = "-1"
    /\ Logged({"premature eof (no CRC)"})
    /\ ~InvalidArmorReturned

(***************************************************************************)
(* SpecHeader: an armored message and a clear-signed message are read with *)
(* a block of header lines: lines with a key of the clear-signed header    *)
(* (Hash, NotDashEscaped), with another key, with a key and nothing after  *)
(* its colon, and without a colon.  Here src is the text as it is given to *)
(* the reader and armored is the kind of its BEGIN line.                   *)
(***************************************************************************)
MaxHeaderLines == 2 \* most header lines added
MaxHeaderSize == 76 \* largest UNDERFLOW buffer

\* "Hash: SHA1\n", "NotDashEscaped: 1\n"
ClearKeyLines == ClearHeaders \ {<<>>}

\* "Foo: bar\n"
OtherKeyLines == {<<70, 111, 111, 58, 32, 98, 97, 114, 10>>}

\* "Foo:\n"
EmptyValueLines == {<<70, 111, 111, 58, 10>>}

\* "Foo\n", "Foo bar \n"
NoColonLines == {<<70, 111, 111, 10>>, <<70, 111, 111, 32, 98, 97, 114, 32, 10>>}

HeaderLines == ClearKeyLines \cup OtherKeyLines \cup EmptyValueLines \cup NoColonLines

HeaderBlocks == SeqsUpTo(HeaderLines, MaxHeaderLines) \ {<<>>}

HeaderBody == <<0, 255>>

\* the armored message of HeaderBody with the lines after its own header lines
WithHeader(lines) ==
    SubSeq(Armored(HeaderBody, 0), 1, HeaderEnd(0) - 1) \o Concat(lines)
    \o SubSeq(Armored(HeaderBody, 0), HeaderEnd(0), Len(Armored(HeaderBody, 0)))

HeaderText(what, lines) ==
    IF what = BEGIN_SIGNED_MSG_IDX THEN ClearSigned(Concat(lines), <<97, 98, LF>>)
    ELSE WithHeader(lines)

HeaderInputs ==
    {[src |-> HeaderText(w, ls), chain |-> HeaderText(w, ls), armored |-> w] :
        w \in {0, BEGIN_SIGNED_MSG_IDX}, ls \in HeaderBlocks}

InitHeader == InitArmor({0}, HeaderInputs, "read")

NextHeader == \E size \in MIN_UNDERFLOW_SIZE..MaxHeaderSize : Underflow(size, 0)

SpecHeader == InitHeader /\ [][NextHeader]_vars

\* the header block ended the process through invalid_armor
HeaderRejected ==
    /\ pc = "exit"
    /\ BadArmorWritten
    /\ Logged({"invalid armor header", "invalid clearsig header"})
    /\ Delivered = <<>>

\* the header block was taken: no error, and what was read so far is what the
\* message without the lines gives
HeaderAccepted ==
    /\ pc # "exit"
    /\ ~BadArmorWritten
    /\ log = <<>>
    /\ armored = 0 => IsPrefix(Delivered, HeaderBody) /\ (pc = "done" => Delivered = HeaderBody)

\* where the header block of the text starts, and its lines as given
HeaderStart(what) ==
    IF what = BEGIN_SIGNED_MSG_IDX THEN Len(head_strings[what + 1]) + 12 ELSE HeaderEnd(0)

GivenLines ==
    LinesOf(SubSeq(src, HeaderStart(armored),
                   find_text(src, HeaderStart(armored), <<LF, LF>>)))

\* the verdict on the block when the lines of the set bad are the ones to
\* reject: the block is rejected if it has one of them, accepted if not
Verdict(bad) ==
    IF \E i \in 1..Len(GivenLines) : Append(GivenLines[i], LF) \in bad
    THEN HeaderRejected
    ELSE HeaderAccepted

OrphanTypes == {"PKT_USER_ID"} \cup SubkeyTypes

OrphanErrors == {"orphaned user id", "subkey w/o mainkey"}

OrphanArrives == FullMode /\ pc = "run" /\ NextIs(OrphanTypes) /\ c.list = NULL

IsOrphanError(e) == e.ev = "log_error" /\ e.arg \in OrphanErrors

OrphanLogged == \E k \in 1..Len(log) : IsOrphanError(log[k])

\* no packet that was logged as an orphan sits in a list
OrphansUnattached == \A k \in 1..Len(log) : IsOrphanError(log[k]) => log[k].no \notin Attached

\* this step logs the packet as an orphan and leaves the list empty
OrphanDropped ==
    /\ Len(log') = Len(log) + 1
    /\ IsOrphanError(log'[Len(log')])
    /\ log'[Len(log')].no = Len(seen) + 1
    /\ c'.list = NULL
    /\ trees' = trees

\* C17 as stated: in full mode a UserId, PublicSubkey or SecretSubkey that
\* arrives while no list is open is an error: the packet is never attached to
\* a list, the list stays empty, and the run reports the error, not success.
C17_OrphanFailsRun ==
    [][/\ OrphanArrives => OrphanDropped
       /\ OrphansUnattached'
       /\ (OrphanLogged' /\ pc' = "done") => rc' # "0"]_vars

\* C17 as amended: in full mode a UserId, PublicSubkey or SecretSubkey that
\* arrives while no list is open is logged as an error: the packet is never
\* attached to a list and the list stays empty; the loop goes on with the next
\* packet, and the run still returns 0.
C17_OrphanLoggedRunGoesOn ==
    [][/\ OrphanArrives => OrphanDropped /\ pc' = "run" /\ rc' = rc
       /\ OrphansUnattached'
       /\ (OrphanLogged' /\ pc' = "done") => rc' = "0"]_vars

\* a full-mode run of a UserId, a PublicKey and a SecretSubkey has returned 0:
\* the UserId was logged as an orphan, the subkey sits in the key's list
C17_Witness ==
    /\ FullMode
    /\ pc = "done"
    /\ rc = "0"
    /\ Len(seen) = 3
    /\ ParsedAs(1, {"PKT_USER_ID"})
    /\ ParsedAs(2, {"PKT_PUBLIC_KEY"})
    /\ ParsedAs(3, {"PKT_SECRET_SUBKEY"})
    /\ OrphanLogged
    /\ Len(trees) = 1
    /\ Len(trees[1]) = 2

\* C18 as stated: in every state of the sequencer, in each of the three
\* modes, when the root of the open list is a OnePassSig every other node of
\* the list is a OnePassSig or a Signature: no UserId and no subkey is ever
\* appended to a list that a OnePassSig heads.
C18_OnePassListHoldsSigsOnly ==
    (c.list # NULL /\ c.list[1].pkttype = "PKT_ONEPASS_SIG") =>
        \A k \in 2..Len(c.list) : c.list[k].pkttype \in {"PKT_ONEPASS_SIG", "PKT_SIGNATURE"}

\* in full mode a UserId has been appended to the list of a OnePassSig
C18_Witness ==
    /\ FullMode
    /\ pc = "run"
    /\ Len(seen) = 2
    /\ ParsedAs(1, {"PKT_ONEPASS_SIG"})
    /\ ParsedAs(2, {"PKT_USER_ID"})
    /\ Len(c.list) = 2
    /\ c.list[2].pkttype = "PKT_USER_ID"

\* a OnePassSig is about to be dispatched to add_onepass_sig
OnePassArrives == ~opt.list_packets /\ pc = "run" /\ NextIs({"PKT_ONEPASS_SIG"})

\* after the step the open list ends with the packet that arrived
LastNodeIsArrival ==
    /\ pc' = "run"
    /\ c'.list # NULL
    /\ c'.list[Len(c'.list)].pkttype = Head(pkts).pkttype
    /\ c'.list[Len(c'.list)].no = Len(seen) + 1

OnePassAttached ==
    /\ LastNodeIsArrival
    /\ c.list = NULL => Len(c'.list) = 1 /\ trees' = trees
    /\ (c.list # NULL /\ ~OnePassInTheWay) =>
           Len(c'.list) = Len(c.list) + 1 /\ IsPrefix(c.list, c'.list) /\ trees' = trees
    /\ OnePassInTheWay => Len(c'.list) = 1 /\ ListHanded

\* C19 as stated: a OnePassSig is always attached to the open list: it starts
\* a list when none is open, it is appended when a OnePassSig heads the open
\* list, and when the open list has another root that list is flushed and the
\* OnePassSig heads a new one; after add_onepass_sig the list is not empty and
\* its last node holds the packet.
C19_OnePassAlwaysAttached == [][OnePassArrives => OnePassAttached]_vars

\* a sigs-only run has faulted on a OnePassSig that came after a Signature:
\* the Signature's list was flushed, the OnePassSig was added to no list
C19_Witness ==
    /\ SigsOnlyMode
    /\ pc = "crash"
    /\ Len(seen) = 2
    /\ ParsedAs(1, {"PKT_SIGNATURE"})
    /\ ParsedAs(2, {"PKT_ONEPASS_SIG"})
    /\ Len(trees) = 1
    /\ c.list = NULL

(***************************************************************************)
(* SpecDek: streams of encryption packets, a Plaintext, a Marker and       *)
(* packets that parse_packet fails on, through proc_packets and            *)
(* proc_encryption_packets, with list_packets on and off.  A failed parse  *)
(* leaves PKT_ENCRYPTED or another type in pkt->pkttype.                   *)
(***************************************************************************)
MaxDekPkts == 3     \* longest packet stream of the session key runs

DekPkts ==
    {[DefaultPkt("PKT_PUBKEY_ENC") EXCEPT !.pubkey_algo = a, !.res = r] :
        a \in {1}, r \in {"0", G10ERR_NO_SECKEY}}
    \cup {[DefaultPkt("PKT_PUBKEY_ENC") EXCEPT !.pubkey_algo = 0]}
    \cup {[DefaultPkt("PKT_SYMKEY_ENC") EXCEPT !.seskeylen = l] : l \in {0, 16}}
    \cup {[DefaultPkt("PKT_ENCRYPTED") EXCEPT !.res = r] : r \in {"0", G10ERR_GENERAL}}
    \cup {DefaultPkt(t) : t \in {"PKT_PLAINTEXT", "PKT_MARKER"}}
    \cup {[Pkt(t) EXCEPT !.rc = G10ERR_GENERAL] : t \in {"PKT_ENCRYPTED", "PKT_MARKER"}}

InitDek ==
    InitSeq({Opt(lp, FALSE, FALSE) : lp \in BOOLEAN},
            {proc_packets, proc_encryption_packets},
            SeqsUpTo(DekPkts, MaxDekPkts))

NextDek ==
    \/ ParseEof
    \/ ParseError
    \/ DispatchListPackets
    \/ DispatchEncryptOnly
    \/ DispatchFull

SpecDek == InitDek /\ [][NextDek]_vars

\* packet i gave a session key: a PubkeyEnc with a supported algorithm whose
\* get_session_key succeeded, or a SymkeyEnc
GaveDek(i) ==
    \/ ParsedAs(i, {"PKT_PUBKEY_ENC"})
          /\ IsSupportedPubkeyAlgo(seen[i].pubkey_algo) /\ seen[i].res = "0"
    \/ ParsedAs(i, {"PKT_SYMKEY_ENC"})

\* the dek held is the one packet i gave
DekOf(i) == c.dek # NULL /\ c.dek[1].no = i

\* the number of the last packet that parse_packet has delivered, 0 if none:
\* a failed parse delivers no packet
LastParsed ==
    IF \E i \in 1..Len(seen) : seen[i].rc = "0"
    THEN CHOOSE i \in 1..Len(seen) :
             seen[i].rc = "0" /\ \A j \in (i + 1)..Len(seen) : seen[j].rc # "0"
    ELSE 0

\* C20: no dek is held when a packet other than Encrypted is dispatched, nor
\* after an Encrypted packet has been processed, whatever decrypt_data gave;
\* a dek is held at a packet boundary only directly after a PubkeyEnc with a
\* supported algorithm whose get_session_key succeeded, or directly after a
\* SymkeyEnc, and it is the dek of that packet; a failed get_session_key
\* leaves no dek, and none is left when the run is over.
C20_DekOnlyAfterKeyPacket ==
    c.dek # NULL =>
        /\ pc = "run"
        /\ LastParsed > 0
        /\ GaveDek(LastParsed)
        /\ DekOf(LastParsed)

\* a PubkeyEnc has given a session key, the Encrypted packet after it was
\* decrypted with that key, and the SymkeyEnc after that has given the dek
\* that is held now
C20_Witness ==
    /\ pc = "run"
    /\ Len(seen) = 3
    /\ ParsedAs(1, {"PKT_PUBKEY_ENC"})
    /\ GaveDek(1)
    /\ ParsedAs(2, {"PKT_ENCRYPTED"})
    /\ ParsedAs(3, {"PKT_SYMKEY_ENC"})
    /\ \E k \in 1..Len(log) : log[k].ev = "decrypt_data" /\ log[k].arg[1].no = 1
    /\ DekOf(3)
(***************************************************************************)
(* The choice of the key for an Encrypted packet.                          *)
(***************************************************************************)
SessionKeyTypes == {"PKT_PUBKEY_ENC", "PKT_SYMKEY_ENC"}

\* an Encrypted packet is about to be dispatched while no dek is held
EncryptedArrivesNoDek == pc = "run" /\ NextIs({"PKT_ENCRYPTED"}) /\ c.dek = NULL

\* the packet immediately before the next one in the stream is a PubkeyEnc
\* or a SymkeyEnc
PreviousIsSessionKey == seen # <<>> /\ seen[Len(seen)].pkttype \in SessionKeyTypes

\* what this step adds to the log
StepLog == SubSeq(log', Len(log) + 1, Len(log'))

\* this step derives a key from the passphrase for the default cipher and
\* hands the packet to decrypt_data with it
PassphraseDecrypted ==
    /\ Len(StepLog) >= 2
    /\ StepLog[1].ev = "passphrase_to_dek" /\ StepLog[1].arg = "default"
    /\ StepLog[2].ev = "decrypt_data" /\ StepLog[2].arg[1].from = "default"

\* this step fails with NoSecretKey and calls nothing else
NoSecretKeyFailed ==
    /\ Len(StepLog) = 1
    /\ StepLog[1].ev = "log_error" /\ StepLog[1].arg = G10ERR_NO_SECKEY

\* C21: when an Encrypted packet is dispatched with no dek held, it is
\* decrypted with a key derived from a passphrase iff the packet immediately
\* before it in the stream was not a PubkeyEnc or SymkeyEnc packet; only
\* when the immediately preceding packet was such a session-key packet does
\* it fail with NoSecretKey without calling decrypt_data.
C21_OneStepLookback ==
    [][EncryptedArrivesNoDek =>
          IF PreviousIsSessionKey THEN NoSecretKeyFailed ELSE PassphraseDecrypted]_vars

\* a PubkeyEnc whose session key could not be recovered, a Marker, and an
\* Encrypted packet that has failed with NoSecretKey although the packet
\* before it was the Marker
C21_Witness ==
    /\ ~opt.list_packets
    /\ Len(seen) = 3
    /\ ParsedAs(1, {"PKT_PUBKEY_ENC"})
    /\ ParsedAs(2, {"PKT_MARKER"})
    /\ ParsedAs(3, {"PKT_ENCRYPTED"})
    /\ log # <<>>
    /\ log[Len(log)] = [ev |-> "log_error", no |-> 3, arg |-> G10ERR_NO_SECKEY]

(***************************************************************************)
(* The key of a SymkeyEnc packet.                                          *)
(***************************************************************************)
\* a SymkeyEnc packet is about to be processed by proc_symkey_enc
SymkeyArrives == pc = "run" /\ ~opt.list_packets /\ NextIs({"PKT_SYMKEY_ENC"})

\* an Encrypted packet is about to be processed directly after a SymkeyEnc
EncryptedAfterSymkey ==
    /\ pc = "run"
    /\ ~opt.list_packets
    /\ NextIs({"PKT_ENCRYPTED"})
    /\ seen # <<>>
    /\ ParsedAs(Len(seen), {"PKT_SYMKEY_ENC"})

\* this step hands the packet to decrypt_data with the key of packet i and
\* derives no other key
DecryptedWithKeyOf(i) ==
    /\ StepLog # <<>>
    /\ StepLog[1].ev = "decrypt_data"
    /\ StepLog[1].arg = passphrase_to_dek("s2k", i)

\* C22: after every SymkeyEnc packet processed in full or encrypt-only mode,
\* last_was_session_key = 2 and dek holds the key derived from the passphrase
\* with the packet's cipher algorithm and S2K, so that the following
\* Encrypted packet is decrypted with that key and never with a passphrase
\* key for the default cipher.
C22_SymkeyGivesDek ==
    [][/\ SymkeyArrives =>
             /\ c'.last_was_session_key = 2
             /\ c'.dek = passphrase_to_dek("s2k", Len(seen) + 1)
       /\ EncryptedAfterSymkey => DecryptedWithKeyOf(Len(seen))]_vars

\* a SymkeyEnc that carries a session key, and the Encrypted packet after it
\* decrypted with a passphrase key for the default cipher
C22_Witness ==
    /\ ~opt.list_packets
    /\ Len(seen) = 2
    /\ ParsedAs(1, {"PKT_SYMKEY_ENC"})
    /\ seen[1].seskeylen # 0
    /\ ParsedAs(2, {"PKT_ENCRYPTED"})
    /\ \E k \in 1..Len(log) :
          log[k].ev = "decrypt_data" /\ log[k].arg = passphrase_to_dek("default", 2)

(***************************************************************************)
(* SpecPlain: signed messages with their data through the three entry     *)
(* points.  A OnePassSig declares SHA1, TIGER or no digest algorithm, a    *)
(* Signature is made with SHA1 or MD5, the Plaintext is hashed with or     *)
(* without an error, and Marker, Comment and PublicSubkey packets lie in   *)
(* between.                                                                *)
(***************************************************************************)
MaxPlainPkts == 4     \* longest packet stream of the signed-data runs

PlainPkts ==
    {[DefaultPkt("PKT_ONEPASS_SIG") EXCEPT !.digest_algo = a] :
        a \in {0, DIGEST_ALGO_SHA1, DIGEST_ALGO_TIGER}}
    \cup {[DefaultPkt("PKT_SIGNATURE") EXCEPT !.digest_algo = a] :
            a \in {DIGEST_ALGO_SHA1, DIGEST_ALGO_MD5}}
    \cup {[DefaultPkt("PKT_PLAINTEXT") EXCEPT !.res = r] : r \in {"0", G10ERR_GENERAL}}
    \cup {DefaultPkt(t) : t \in {"PKT_MARKER", "PKT_COMMENT", "PKT_PUBLIC_SUBKEY"}}

InitPlain ==
    InitSeq({Opt(FALSE, FALSE, FALSE)},
            {proc_packets, proc_signature_packets, proc_encryption_packets},
            SeqsUpTo(PlainPkts, MaxPlainPkts))

NextPlain ==
    \/ ParseEof
    \/ DispatchSigsOnly
    \/ DispatchEncryptOnly
    \/ DispatchFull

SpecPlain == InitPlain /\ [][NextPlain]_vars

\* a Plaintext packet is about to be processed by proc_plaintext
PlaintextArrives == pc = "run" /\ ~opt.list_packets /\ NextIs({"PKT_PLAINTEXT"})

OnePassNodes(list) == {i \in 1..Len(list) : list[i].pkttype = "PKT_ONEPASS_SIG"}

\* the digest algorithms that the OnePassSig nodes of a list declare
DeclaredBy(list) == {list[i].digest_algo : i \in OnePassNodes(list)} \ {0}

StandardAlgos == {DIGEST_ALGO_RMD160, DIGEST_ALGO_SHA1, DIGEST_ALGO_MD5}

\* this step discards the digest context and opens a fresh one with the given
\* algorithms, through which nothing but the arriving packet has gone; the
\* open list stays as it is and have_data is set
FreshContext(algos) ==
    /\ c'.mfx # NULL
    /\ c'.mfx[1].algos = algos
    /\ Len(c'.mfx[1].data) = 1
    /\ c'.mfx[1].data[1].src = "plaintext"
    /\ c'.mfx[1].data[1].no = Len(seen) + 1
    /\ c'.list = c.list
    /\ c'.have_data

DroppedTypes ==
    IF opt.list_packets
    THEN PktTypes \ {"PKT_PUBKEY_ENC", "PKT_ENCRYPTED", "PKT_COMPRESSED"}
    ELSE IF FullMode THEN {"PKT_MARKER", "PKT_COMMENT"}
    ELSE SubkeyTypes \cup {"PKT_MARKER", "PKT_COMMENT"}

\* a packet that the mode drops is about to be dispatched
DropArrives == pc = "run" /\ NextIs(DroppedTypes)

\* the packets parsed so far end with a Plaintext that only Signatures and
\* dropped packets have followed
DataThenSigs ==
    \E i \in 1..Len(seen) :
        /\ ParsedAs(i, {"PKT_PLAINTEXT"})
        /\ \A j \in (i + 1)..Len(seen) : ParsedAs(j, {"PKT_SIGNATURE"} \cup DroppedTypes)

\* C24: dropping a Marker or Comment packet (or any packet type the mode
\* does not handle) leaves the open list, have_data, last_was_session_key
\* and the digest context unchanged; in particular have_data, once set by a
\* Plaintext packet, is still set when the list holding its signatures is
\* tree-processed, also when a Marker or Comment lies between the Plaintext
\* and the Signature.
C24_DropChangesNothing ==
    [][/\ DropArrives =>
             /\ c'.list = c.list
             /\ c'.have_data = c.have_data
             /\ c'.last_was_session_key = c.last_was_session_key
             /\ c'.mfx = c.mfx
       /\ (ListHanded /\ DataThenSigs) => c.have_data]_vars

\* a OnePassSig, the Plaintext, a Marker and the Signature: at the end of the
\* stream the list was tree-processed with have_data off, and detached data
\* was hashed for a message that carried its data
C24_Witness ==
    /\ pc = "done"
    /\ Len(seen) = 4
    /\ ParsedAs(1, {"PKT_ONEPASS_SIG"})
    /\ ParsedAs(2, {"PKT_PLAINTEXT"})
    /\ ParsedAs(3, {"PKT_MARKER"})
    /\ ParsedAs(4, {"PKT_SIGNATURE"})
    /\ Len(trees) = 1
    /\ \E k \in 1..Len(log) : log[k].ev \in {"hash_datafiles", "ask_for_detached_datafile"}

(***************************************************************************)
(* The lists headed by a OnePassSig that proc_tree has been given, and the *)
(* digest context that signature_check was called with.                    *)
(***************************************************************************)
OnePassTrees == {t \in 1..Len(trees) : trees[t][1].pkttype = "PKT_ONEPASS_SIG"}

\* the packet numbers of the Signature nodes of the lists headed by a
\* OnePassSig
OnePassTreeSigs ==
    UNION {{trees[t][i].no : i \in SigNodes(trees[t])} : t \in OnePassTrees}

\* every OnePassSig node of the list has a Signature node after it
EverySigFollows(list) ==
    \A i \in OnePassNodes(list) :
        \E j \in (i + 1)..Len(list) : list[j].pkttype = "PKT_SIGNATURE"

\* log entry k is the check of a signature of a list headed by a OnePassSig
\* against a digest context in which its digest algorithm is not enabled
CheckedWithoutDigest(k) ==
    /\ log[k].ev = "signature_check"
    /\ log[k].no \in OnePassTreeSigs
    /\ seen[log[k].no].digest_algo \notin log[k].arg[1].algos

\* C25: for every list headed by a OnePassSig that reaches the tree
\* processor, for each OnePassSig node there is a Signature node later in
\* the list, and the digest algorithm of every Signature that is checked was
\* enabled on the digest context before the signed data was hashed.
C25_OnePassHasSigWithDigest ==
    /\ \A t \in OnePassTrees : EverySigFollows(trees[t])
    /\ \A k \in 1..Len(log) : ~CheckedWithoutDigest(k)

\* a OnePassSig that declares SHA1, the Plaintext, and a Signature made with
\* MD5: the signature was checked against a context that has SHA1 only
C25_Witness ==
    /\ pc = "done"
    /\ Len(seen) = 3
    /\ ParsedAs(1, {"PKT_ONEPASS_SIG"}) /\ seen[1].digest_algo = DIGEST_ALGO_SHA1
    /\ ParsedAs(2, {"PKT_PLAINTEXT"})
    /\ ParsedAs(3, {"PKT_SIGNATURE"}) /\ seen[3].digest_algo = DIGEST_ALGO_MD5
    /\ \E k \in 1..Len(log) :
          /\ CheckedWithoutDigest(k)
          /\ log[k].no = 3
          /\ log[k].arg[1].algos = {DIGEST_ALGO_SHA1}

(***************************************************************************)
(* SpecTree: one-pass signed messages through proc_packets and             *)
(* proc_signature_packets, in batch mode and not.  A signature is good and *)
(* trusted, good and not trusted, or bad; the Plaintext is hashed with or  *)
(* without an error; a Marker or a PublicKey may lie in between.           *)
(***************************************************************************)
MaxTreePkts == 4     \* longest packet stream of the tree runs

TreePkts ==
    {[DefaultPkt("PKT_SIGNATURE") EXCEPT !.res = r] : r \in {"0", G10ERR_BAD_SIGN}}
    \cup {[DefaultPkt("PKT_SIGNATURE") EXCEPT !.res2 = G10ERR_GENERAL]}
    \cup {[DefaultPkt("PKT_PLAINTEXT") EXCEPT !.res = r] : r \in {"0", G10ERR_GENERAL}}
    \cup {DefaultPkt(t) : t \in {"PKT_ONEPASS_SIG", "PKT_MARKER", "PKT_PUBLIC_KEY"}}

InitTree ==
    InitSeq({Opt(FALSE, FALSE, b) : b \in BOOLEAN},
            {proc_packets, proc_signature_packets},
            SeqsUpTo(TreePkts, MaxTreePkts))

NextTree ==
    \/ ParseEof
    \/ DispatchSigsOnly
    \/ DispatchFull

SpecTree == InitTree /\ [][NextTree]_vars

\* this step hands a list headed by a OnePassSig to the tree processor, with
\* list_packets and skip_verify off
OnePassListProcessed ==
    /\ ~opt.list_packets
    /\ ~opt.skip_verify
    /\ ListHanded
    /\ c.list[1].pkttype = "PKT_ONEPASS_SIG"

\* the packet numbers of a sequence of nodes or of log entries
Nos(s) == [i \in 1..Len(s) |-> s[i].no]

IsSignature(n) == n.pkttype = "PKT_SIGNATURE"

IsCheck(e) == e.ev = "do_check_sig"

IsStatus(e) == e.ev = "write_status"

IsHashError(e) == e.ev = "log_error" /\ e.arg = "can't hash datafile"

\* the signatures of the list, in list order
ListSigs == Nos(SelectSeq(c.list, IsSignature))

\* the signatures this step has checked, in the order of the checks
StepChecks == Nos(SelectSeq(StepLog, IsCheck))

\* hashing the detached data has failed in this step
HashFailed == \E k \in 1..Len(StepLog) : IsHashError(StepLog[k])

\* every digest context that this step has handed to signature_check holds
\* data, and the data went through it without an error
HashedCompletely ==
    \A k \in 1..Len(StepLog) :
        StepLog[k].ev = "signature_check" =>
            /\ StepLog[k].arg[1].data # <<>>
            /\ \A d \in 1..Len(StepLog[k].arg[1].data) : StepLog[k].arg[1].data[d].rc = "0"

\* every digest context that this step has handed to signature_check holds
\* data, and detached data went through it without an error
HashedBefore ==
    \A k \in 1..Len(StepLog) :
        StepLog[k].ev = "signature_check" =>
            /\ StepLog[k].arg[1].data # <<>>
            /\ \A d \in 1..Len(StepLog[k].arg[1].data) :
                  StepLog[k].arg[1].data[d].src = "datafiles" =>
                      StepLog[k].arg[1].data[d].rc = "0"

NothingChecked == SelectSeq(StepLog, IsCheck) = <<>> /\ SelectSeq(StepLog, IsStatus) = <<>>

\* the last signature this step has checked is bad or not trusted
LastCheckFailed ==
    /\ StepChecks # <<>>
    /\ \/ seen[StepChecks[Len(StepChecks)]].res # "0"
       \/ seen[StepChecks[Len(StepChecks)]].res2 # "0"

\* C26 as stated: when a list headed by a OnePassSig is tree-processed
\* (list_packets and skip_verify off), every Signature node of the list is
\* checked exactly once, in list order, and each check happens only after
\* the signed data has been hashed completely; if hashing the detached data
\* fails, no signature of the list is checked and no status line is written.
C26_EverySigCheckedOnce ==
    [][OnePassListProcessed =>
          IF HashFailed THEN NothingChecked
          ELSE StepChecks = ListSigs /\ HashedCompletely]_vars

\* C26 as amended: when a list headed by a OnePassSig is tree-processed
\* (list_packets and skip_verify off), the Signature nodes of the list are
\* checked once each, in list order, all of them unless the process exits:
\* in batch mode it exits right after the check of a signature that is bad
\* or not trusted, and the signatures after that one are not checked.  Each
\* check happens after the data has gone through the digest context; a
\* failure of handle_plaintext is only logged and the signatures are checked
\* all the same.  If hashing the detached data fails, no signature of the
\* list is checked and no status line is written.
C26_SigsCheckedUntilExit ==
    [][OnePassListProcessed =>
          IF HashFailed THEN NothingChecked
          ELSE /\ IsPrefix(StepChecks, ListSigs)
               /\ HashedBefore
               /\ pc' # "exit" => StepChecks = ListSigs
               /\ pc' = "exit" => opt.batch /\ LastCheckFailed]_vars

\* in batch mode a OnePassSig, the Plaintext, a bad Signature and a good one:
\* the process has exited after the check of the first
C26_Witness ==
    /\ opt.batch
    /\ pc = "exit"
    /\ Len(seen) = 4
    /\ ParsedAs(1, {"PKT_ONEPASS_SIG"})
    /\ ParsedAs(2, {"PKT_PLAINTEXT"})
    /\ ParsedAs(3, {"PKT_SIGNATURE"}) /\ seen[3].res = G10ERR_BAD_SIGN
    /\ ParsedAs(4, {"PKT_SIGNATURE"}) /\ seen[4].res = "0"
    /\ Checked(3)
    /\ ~Checked(4)

(***************************************************************************)
(* SpecClass: a Signature of every class, with a known digest algorithm,   *)
(* an unknown one (9) or none, alone or after a PublicKey, a SecretKey, a  *)
(* OnePassSig or a Plaintext, through proc_packets and                     *)
(* proc_signature_packets with list_sigs and check_sigs on.                *)
(***************************************************************************)
MaxSigClass == 255     \* the largest signature class

ClassSigs ==
    {[DefaultPkt("PKT_SIGNATURE") EXCEPT !.sig_class = cl, !.digest_algo = a] :
        cl \in 0..MaxSigClass, a \in {0, DIGEST_ALGO_SHA1, 9}}

ClassRoots ==
    {DefaultPkt(t) : t \in {"PKT_PUBLIC_KEY", "PKT_SECRET_KEY", "PKT_ONEPASS_SIG", "PKT_PLAINTEXT"}}

ClassStreams == {<<s>> : s \in ClassSigs} \cup {<<r, s>> : r \in ClassRoots, s \in ClassSigs}

InitClass ==
    InitSeq({[Opt(FALSE, FALSE, FALSE) EXCEPT !.list_sigs = TRUE, !.check_sigs = TRUE]},
            {proc_packets, proc_signature_packets},
            ClassStreams)

NextClass ==
    \/ ParseEof
    \/ DispatchSigsOnly
    \/ DispatchFull

SpecClass == InitClass /\ [][NextClass]_vars

\* the result of do_check_sig is rc and the calls it has made are evs
Routed(r, rc0, evs) == r.rc = rc0 /\ r.m.log = log \o evs

\* the classes the claim sends to check_key_signature
KeySigClasses == 16..23 \cup {24, 32, 48}

PublicKeyVariants == {"PKT_PUBLIC_KEY", "PKT_PUBLIC_SUBKEY"}

\* the digest that signature_check is given: a copy of the data digest, or a
\* fresh one when there is none
DataDigest == IF c.mfx # NULL THEN c.mfx ELSE md_open(0)

\* do_check_sig on a node takes the route the claim gives
RoutedAsClaimed(node) ==
    IF node.digest_algo = 0
    THEN Routed(do_check_sig(Machine, node), G10ERR_PUBKEY_ALGO, <<>>)
    ELSE IF check_digest_algo(node.digest_algo) # "0"
    THEN Routed(do_check_sig(Machine, node), G10ERR_DIGEST_ALGO, <<>>)
    ELSE IF node.sig_class \in {0, 1}
    THEN Routed(do_check_sig(Machine, node), node.res,
                <<[ev |-> "signature_check", no |-> node.no, arg |-> DataDigest]>>)
    ELSE IF node.sig_class \in KeySigClasses /\ c.list[1].pkttype \in PublicKeyVariants
    THEN Routed(do_check_sig(Machine, node), node.res,
                <<[ev |-> "check_key_signature", no |-> node.no, arg |-> c.list[1].no]>>)
    ELSE Routed(do_check_sig(Machine, node), G10ERR_SIG_CLASS, <<>>)

\* C27: do_check_sig routes by (digest_algo, sig_class, root type), for
\* every sig_class in 0x00..0xFF: digest_algo 0 or unsupported is rejected
\* before any verifier is called; classes 0x00 and 0x01 go to
\* signature_check on a copy of the data digest; every class in 0x10..0x17
\* and the classes 0x18, 0x20, 0x30 go to check_key_signature when the list
\* root is a public-key variant and fail with SigClass otherwise; every
\* other class fails with SigClass.
C27_CheckSigRouting ==
    (pc = "run" /\ c.list # NULL) =>
        \A i \in 1..Len(c.list) :
            c.list[i].pkttype = "PKT_SIGNATURE" => RoutedAsClaimed(c.list[i])

\* a PublicKey and a Signature of class 0x14 with a known digest algorithm
\* have been listed: check_key_signature was not called and the signature was
\* printed with the letter of an error
C27_Witness ==
    /\ pc = "done"
    /\ Len(seen) = 2
    /\ ParsedAs(1, {"PKT_PUBLIC_KEY"})
    /\ ParsedAs(2, {"PKT_SIGNATURE"})
    /\ seen[2].sig_class = 20
    /\ seen[2].digest_algo = DIGEST_ALGO_SHA1
    /\ \A k \in 1..Len(log) : log[k].ev # "check_key_signature"
    /\ \E k \in 1..Len(log) : log[k] = [ev |-> "list_sig", no |-> 2, arg |-> "%"]

(***************************************************************************)
(* SpecHash: clear-signed messages whose header is one Hash line, or none. *)
(* The list of the line is made of the four digest names, of a proper      *)
(* prefix of a name, of a name with a character more and of another word,  *)
(* joined by commas with and without a blank, by a blank alone, and with a *)
(* comma at the end.  src is the Hash line.                                *)
(***************************************************************************)
MaxHashNames == 4     \* most names in a list of digest names
MaxHashTokens == 2    \* most tokens in a list with other tokens
MaxHashSize == 75     \* largest UNDERFLOW buffer

DigestNames == {HashNames[k].name : k \in 1..Len(HashNames)}

\* "SHA", "M", "SHA11", "X"
OtherTokens == {<<83, 72, 65>>, <<77>>, <<83, 72, 65, 49, 49>>, <<88>>}

RECURSIVE Joined(_, _)
\* the tokens with the separator between them
Joined(tokens, sep) ==
    IF Len(tokens) = 0 THEN <<>>
    ELSE IF Len(tokens) = 1 THEN tokens[1]
    ELSE tokens[1] \o sep \o Joined(Tail(tokens), sep)

HashLists ==
    {Joined(ts, <<COMMA, SP>>) : ts \in SeqsUpTo(DigestNames, MaxHashNames)}
    \cup {Joined(ts, sep) : ts \in SeqsUpTo(DigestNames \cup OtherTokens, MaxHashTokens),
                            sep \in {<<COMMA>>, <<SP, COMMA, TAB>>, <<SP>>}}
    \cup {n \o <<COMMA>> : n \in DigestNames}

HashLines == {HashTag \o <<SP>> \o l : l \in HashLists}

HashInputs ==
    {[src |-> h, chain |-> ClearSigned(h \o <<LF>>, <<97, 98, LF>>),
      armored |-> BEGIN_SIGNED_MSG_IDX] : h \in HashLines}
    \cup {[src |-> <<>>, chain |-> ClearSigned(<<>>, <<97, 98, LF>>),
           armored |-> BEGIN_SIGNED_MSG_IDX]}

InitHash == InitArmor({0}, HashInputs, "read")

NextHash == \E size \in MIN_UNDERFLOW_SIZE..MaxHashSize : Underflow(size, 0)

SpecHash == InitHash /\ [][NextHash]_vars

RECURSIVE Elements(_)
\* the comma-separated elements of a list
Elements(l) ==
    IF find_byte(l, 1, {COMMA}) > Len(l) THEN <<l>>
    ELSE <<SubSeq(l, 1, find_byte(l, 1, {COMMA}) - 1)>>
         \o Elements(SubSeq(l, find_byte(l, 1, {COMMA}) + 1, Len(l)))

RECURSIVE Trimmed(_)
\* an element without the blanks around it
Trimmed(e) ==
    IF e = <<>> THEN e
    ELSE IF e[1] \in {SP, TAB} THEN Trimmed(Tail(e))
    ELSE IF e[Len(e)] \in {SP, TAB} THEN Trimmed(SubSeq(e, 1, Len(e) - 1))
    ELSE e

\* the elements of the list of the Hash line given
GivenElements ==
    {Trimmed(Elements(SubSeq(src, Len(HashTag) + 1, Len(src)))[i]) :
        i \in 1..Len(Elements(SubSeq(src, Len(HashTag) + 1, Len(src))))}

\* the bits of the digests named
BitsNamed ==
    LET on(k) == IF HashNames[k].name \in GivenElements THEN HashNames[k].bit ELSE 0
    IN  on(1) + on(2) + on(3) + on(4)

\* the first call has checked the input and the header
HeaderRead == calls # <<>>

HashLineGiven == src # <<>>

HashLineRejected ==
    /\ pc = "exit"
    /\ BadArmorWritten
    /\ Logged({"invalid armor header", "invalid clearsig header"})
    /\ Delivered = <<>>

HashLineAccepted(bits) ==
    /\ pc # "exit"
    /\ ~BadArmorWritten
    /\ log = <<>>
    /\ afx.hashes = bits

\* C28: parse_hash_header accepts a Hash header line iff every
\* comma-separated element of its list is exactly one of the names
\* RIPEMD160, SHA1, MD5, TIGER, and then returns exactly the bits of the
\* digests named; a list containing any other token, a proper prefix of an
\* allowed name included, is rejected (result 0).
C28_HashNamesExact ==
    (HeaderRead /\ HashLineGiven) =>
        IF GivenElements \subseteq DigestNames
        THEN parse_hash_header(src) = BitsNamed /\ HashLineAccepted(BitsNamed)
        ELSE parse_hash_header(src) = 0 /\ HashLineRejected

\* the line "Hash: SHA" was accepted and has enabled SHA1
C28_Witness ==
    /\ HeaderRead
    /\ src = HashTag \o <<SP, 83, 72, 65>>
    /\ HashLineAccepted(2)

(***************************************************************************)
(* The packets the filter makes up when it enters a clear-signed text: the *)
(* bytes the first UNDERFLOW call returns.                                 *)
(***************************************************************************)
\* the first call has returned the made-up packets
FakedHeadersRead == calls # <<>> /\ calls[1].rc = "0" /\ afx.in_cleartext # 0

\* the digests the Hash headers have enabled, MD5 if they have enabled none
EnabledDigests ==
    IF BitAnd(afx.hashes, 15) = 0 THEN {DIGEST_ALGO_MD5}
    ELSE {d \in {DIGEST_ALGO_RMD160, DIGEST_ALGO_SHA1, DIGEST_ALGO_MD5, DIGEST_ALGO_TIGER} :
             BitAnd(afx.hashes, CASE d = DIGEST_ALGO_RMD160 -> 1
                                  [] d = DIGEST_ALGO_SHA1 -> 2
                                  [] d = DIGEST_ALGO_MD5 -> 4
                                  [] OTHER -> 8) # 0}

\* the i-th stretch of 15 bytes of what the first call has returned
FakedPacket(i) == SubSeq(calls[1].buf, 15 * (i - 1) + 1, 15 * i)

\* what the first call has returned after n such stretches
AfterFakedPackets(n) == SubSeq(calls[1].buf, 15 * n + 1, Len(calls[1].buf))

\* a OnePassSig packet: CTB 0x90, length 13, version 3, sigclass 0x01, the
\* digest algorithm, public-key algorithm 0, key ID 0, the is-last flag
IsOnePassSigPacket(p, algos, last) ==
    /\ SubSeq(p, 1, 4) = <<144, 13, 3, 1>>
    /\ p[5] \in algos
    /\ SubSeq(p, 6, 14) = <<0, 0, 0, 0, 0, 0, 0, 0, 0>>
    /\ p[15] = IF last THEN 1 ELSE 0

\* a Plaintext packet header: CTB 0xaf, a first chunk of 6 bytes, format 't',
\* name length 0, timestamp 0
IsPlaintextHeader(p) == p = <<175, 0, 6, 116, 0, 0, 0, 0, 0>>

\* C29: on entering clearsigned mode the filter emits, before any text,
\* exactly one OnePassSig packet per digest enabled by the Hash headers, and
\* exactly one for MD5 when no digest was named; each has sigclass 0x01,
\* public-key algorithm 0 and key ID 0; the is-last flag is 1 on the final
\* OnePassSig packet and 0 on all others; they are followed by one Plaintext
\* packet header with format 't', name length 0 and timestamp 0.
C29_OnePassSigPerDigest ==
    FakedHeadersRead =>
        /\ Len(calls[1].buf) = 15 * Cardinality(EnabledDigests) + 9
        /\ \A i \in 1..Cardinality(EnabledDigests) :
              IsOnePassSigPacket(FakedPacket(i), EnabledDigests,
                                 i = Cardinality(EnabledDigests))
        /\ {FakedPacket(i)[5] : i \in 1..Cardinality(EnabledDigests)} = EnabledDigests
        /\ IsPlaintextHeader(AfterFakedPackets(Cardinality(EnabledDigests)))
        /\ \A k \in 2..Len(calls) : calls[k].faked

\* the header "Hash: SHA1, TIGER, SHA1": the first call has returned two
\* OnePassSig packets and the Plaintext header, 39 bytes
C29_Witness ==
    /\ FakedHeadersRead
    /\ src = HashTag \o <<SP>> \o HashNames[2].name \o <<COMMA, SP>> \o HashNames[4].name
                     \o <<COMMA, SP>> \o HashNames[2].name
    /\ EnabledDigests = {DIGEST_ALGO_SHA1, DIGEST_ALGO_TIGER}
    /\ Len(calls[1].buf) = 39

\* the place of a digest in the list RIPEMD160, SHA1, MD5, TIGER
ListRank(d) ==
    CASE d = DIGEST_ALGO_RMD160 -> 1
      [] d = DIGEST_ALGO_SHA1 -> 2
      [] d = DIGEST_ALGO_MD5 -> 3
      [] d = DIGEST_ALGO_TIGER -> 4
      [] OTHER -> 0

\* the digest of the i-th made-up packet
FakedDigest(i) == FakedPacket(i)[5]

\* C30 as stated: when several digests are enabled for a clearsigned
\* message, the synthesized OnePassSig packets are emitted in the reverse
\* order of the list RIPEMD160, SHA1, MD5, TIGER: TIGER first when enabled,
\* RIPEMD160 last when enabled.
C30_ReverseListOrder ==
    FakedHeadersRead =>
        \A i, j \in 1..Cardinality(EnabledDigests) :
            i < j => ListRank(FakedDigest(i)) > ListRank(FakedDigest(j))

\* C30 as amended: when several digests are enabled for a clearsigned
\* message, the synthesized OnePassSig packets are emitted in the order of
\* the list RIPEMD160, SHA1, MD5, TIGER: RIPEMD160 first when enabled, TIGER
\* last when enabled.
C30_ListOrder ==
    FakedHeadersRead =>
        \A i, j \in 1..Cardinality(EnabledDigests) :
            i < j => ListRank(FakedDigest(i)) < ListRank(FakedDigest(j))

\* the header "Hash: TIGER, MD5, RIPEMD160": the packets made up are those
\* for RIPEMD160, MD5 and TIGER, in this order
C30_Witness ==
    /\ FakedHeadersRead
    /\ src = HashTag \o <<SP>> \o HashNames[4].name \o <<COMMA, SP>> \o HashNames[3].name
                     \o <<COMMA, SP>> \o HashNames[1].name
    /\ Cardinality(EnabledDigests) = 3
    /\ FakedDigest(1) = DIGEST_ALGO_RMD160
    /\ FakedDigest(2) = DIGEST_ALGO_MD5
    /\ FakedDigest(3) = DIGEST_ALGO_TIGER

(***************************************************************************)
(* The end of a clear-signed text: the chunk fake_packet returns from the  *)
(* call that meets the signature line.                                     *)
(***************************************************************************)
\* the call in which fake_packet met the line that ends the text
LastFaked == CHOOSE i \in FakedCalls : \A j \in FakedCalls : j <= i

\* the bytes of a chunk behind the text its length header counts
AfterChunkText(call) == SubSeq(call.buf, 3 + Len(ChunkText(call)), Len(call.buf))

\* C31: whenever a clearsigned body is terminated by the signature line, the
\* chunk that fake_packet returns ends with a zero-length length header (two
\* zero bytes) closing the literal packet, for every length of the text in
\* that final chunk (shorter than 256 bytes and multiples of 256 included).
\* A final chunk with no text is the zero-length header itself.
C31_TrailerCloses ==
    TextEnded =>
        \/ AfterChunkText(calls[LastFaked]) = <<0, 0>>
        \/ calls[LastFaked].buf = <<0, 0>>

\* the text "ab" has ended: the last chunk is its length header 0, 2 and the
\* two letters, and nothing behind them
C31_Witness ==
    /\ TextEnded
    /\ src = <<97, 98, LF>>
    /\ calls[LastFaked].buf = <<0, 2, 97, 98>>

\* the blank line that ends the headers is followed directly by the
\* signature line
EmptyBody == src = <<>>

\* C32: a clearsigned message with an empty body (the blank line ending the
\* headers is followed directly by the BEGIN PGP SIGNATURE line) is processed
\* without any assertion failure: fake_packet returns a zero-length literal
\* packet and the filter goes on to decode the signature.
C32_EmptyBodyVerifies ==
    EmptyBody =>
        /\ pc # "abort"
        /\ Len(calls) >= 2 => calls[2].rc = "0" /\ calls[2].faked /\ calls[2].buf = <<0, 0>>
        /\ Len(calls) >= 3 => calls[3].rc = "0" /\ ~calls[3].faked /\ calls[3].buf = <<136, 1, 0>>

\* the first call has returned the made-up packet headers and the second
\* one, served by fake_packet, has not returned: the assertion has failed
C32_Witness ==
    /\ EmptyBody
    /\ Len(calls) = 2
    /\ calls[1].rc = "0"
    /\ calls[2].faked
    /\ calls[2].rc = "abort"
    /\ pc = "abort"

(***************************************************************************)
(* SpecNested: clear-signed messages whose text is followed by a second    *)
(* -----BEGIN PGP SIGNED MESSAGE----- line, the header lines and the text  *)
(* of an inner message and an armored signature, read with each sequence   *)
(* of buffer sizes.  src is the text of the outer message up to the second *)
(* BEGIN line.                                                             *)
(***************************************************************************)
MaxNestedLine == 72     \* longest line of the outer text
MaxNestedSize == 76     \* largest UNDERFLOW buffer

SignedMsgLine == Dashes \o head_strings[BEGIN_SIGNED_MSG_IDX + 1] \o Dashes

OuterTexts ==
    {<<97, 98, LF>>, <<LF>>, <<97, 98, LF, 99, LF>>}
    \cup {TextOf(<<LongLine(n)>>) : n \in (MIN_UNDERFLOW_SIZE - 10)..MaxNestedLine}

\* the inner text: none, a line, a line of radix-64 characters
InnerTexts == {<<>>, <<97, 98, LF>>, <<89, 87, 74, 106, LF>>}

NestedInputs ==
    {[src |-> t,
      chain |-> SignedMsgLine \o <<LF, LF>> \o t \o SignedMsgLine \o <<LF>> \o h \o <<LF>>
                \o u \o Armored(<<136, 1, 0>>, BEGIN_SIGNATURE),
      armored |-> BEGIN_SIGNED_MSG_IDX] :
        t \in OuterTexts, h \in ClearHeaders, u \in InnerTexts}

InitNested == InitArmor({0}, NestedInputs, "read")

NextNested == \E size \in MIN_UNDERFLOW_SIZE..MaxNestedSize : Underflow(size, 0)

SpecNested == InitNested /\ [][NextNested]_vars

\* the second BEGIN PGP SIGNED MESSAGE line has been read: the first call
\* read the first one, and none is left in what there is to read
NestedLineRead == calls # <<>> /\ find_text(chain, 1, SignedMsgLine) = 0

\* the line has come out as text of the faked literal packet
NestedLineInText == find_text(Payload, 1, SignedMsgLine) # 0

\* C33: a -----BEGIN PGP SIGNED MESSAGE----- line met while a clearsigned
\* body is open (in_cleartext set) is rejected with InvalidArmor; it neither
\* ends the body as if it were the signature line nor is it passed on as
\* text.
C33_NestedRejected ==
    /\ NestedLineRead => FatalArmorError /\ LastCall.buf = <<>>
    /\ ~TextEnded
    /\ ~NestedLineInText

\* the call that read the second BEGIN line has returned the text "ab" as
\* the last chunk of the literal packet, with no error, and the filter is
\* set to decode radix-64
C33_Witness ==
    /\ NestedLineRead
    /\ src = <<97, 98, LF>>
    /\ Len(calls) = 2
    /\ LastCall.rc = "0"
    /\ LastCall.buf = <<0, 2, 97, 98>>
    /\ afx.in_cleartext = 0
    /\ afx.faked = 0
    /\ afx.inp_checked = 1
    /\ ~Logged({"nested clear text signatures"})

(***************************************************************************)
(* The flags of the armor context as an UNDERFLOW call leaves them.        *)
(***************************************************************************)
\* the last UNDERFLOW call has returned to its caller
CallReturned == calls # <<>> /\ pc \in {"read", "done"}

SignatureLine == Dashes \o head_strings[BEGIN_SIGNATURE + 1] \o Dashes

\* the call that has just returned was served by fake_packet and has read
\* the signature line
BodyTerminated ==
    /\ CallReturned
    /\ LastCall.faked
    /\ Len(calls) > 1
    /\ find_text(chain, 1, SignatureLine) = 0

\* C34: armor flag invariant, at every return from an UNDERFLOW call:
\* in_cleartext is set iff faked is non-zero; and when the clearsigned body
\* has been terminated by the signature line, faked = 0, in_cleartext = 0,
\* inp_checked = 1, the running CRC is the initial value 0xB704CE and the
\* radix-64 index is 0, so the next UNDERFLOW decodes the signature as
\* radix-64.
C34_ArmorFlags ==
    /\ CallReturned => (afx.in_cleartext # 0 <=> afx.faked # 0)
    /\ BodyTerminated =>
        /\ afx.faked = 0
        /\ afx.in_cleartext = 0
        /\ afx.inp_checked = 1
        /\ afx.crc = CRCINIT
        /\ afx.idx = 0
        /\ afx.radbuf[1] = 0

\* a text of two lines has been returned in two chunks and the second call
\* of fake_packet has read the signature line
C34_Witness ==
    /\ BodyTerminated
    /\ Len(calls) = 3
    /\ calls[2].faked
    /\ Len(LinesOf(src)) = 2
    /\ afx.crc = CRCINIT
    /\ afx.faked = 0

(***************************************************************************)
(* SpecFree: a decoding filter is read with each sequence of buffer sizes  *)
(* and then closed with IOBUFCTRL_FREE, after any of the calls.  The       *)
(* inputs are armored messages, the same cut off before the CRC line,      *)
(* streams that are not armored, the empty stream, and clear-signed        *)
(* messages whole and cut off in the text.  src is the armored body, or    *)
(* the stream or text itself.                                              *)
(***************************************************************************)
MaxFreeShort == 3   \* longest of the short armored bodies
MaxFreeBody == 76   \* longest armored body
MaxFreeSize == 76   \* largest UNDERFLOW buffer

FreeBodies ==
    (SeqsUpTo({0, 255}, MaxFreeShort) \ {<<>>})
    \cup {Body(n) : n \in MIN_UNDERFLOW_SIZE..MaxFreeBody}

\* the armored text up to the line feed before the '=' of the CRC line
NoCrcLine(text) == SubSeq(text, 1, CrcEnd(text, 0) - 6)

FreeInputs ==
    {[src |-> b, chain |-> Armored(b, 0), armored |-> 0] : b \in FreeBodies}
    \cup {[src |-> b, chain |-> NoCrcLine(Armored(b, 0)), armored |-> 0] :
             b \in FreeBodies \cup {<<>>}}
    \cup {[src |-> t, chain |-> t, armored |-> -1] : t \in {<<>>, <<153, 0>>, OtherLine}}
    \cup {[src |-> t, chain |-> ClearSigned(<<>>, t), armored |-> BEGIN_SIGNED_MSG_IDX] :
             t \in {<<97, 98, LF>>}}
    \cup {[src |-> t, chain |-> SignedMsgLine \o <<LF, LF>> \o t,
           armored |-> BEGIN_SIGNED_MSG_IDX] : t \in {<<97, 98, LF>>}}

\* IOBUFCTRL_FREE of a filter that was read from
FreeRead ==
    /\ pc \in {"read", "done"}
    /\ Wrote(armor_free([afx |-> afx, out |-> chain, log |-> log]), "freed")
    /\ UNCHANGED <<src, calls, fed, armored>>
    /\ UNCHANGED <<opt, c, pkts, rc, seen, trees>>
    /\ UNCHANGED qlvars

InitFree == InitArmor({0}, FreeInputs, "read")

NextFree ==
    \/ \E size \in MIN_UNDERFLOW_SIZE..MaxFreeSize : Underflow(size, 0)
    \/ FreeRead

SpecFree == InitFree /\ [][NextFree]_vars

NoValidDataReported == Logged({"no valid OpenPGP data found."})

\* the calls that radix64_read served: of a clear-signed message the first
\* call returns the made-up packet headers and fake_packet serves the text
RadixCalls ==
    {i \in 1..Len(calls) :
        afx.inp_bypass = 0 /\ ~calls[i].faked /\ ~(armored = BEGIN_SIGNED_MSG_IDX /\ i = 1)}

\* a call has returned bytes decoded from radix-64
ArmoredBytesDelivered == \E i \in RadixCalls : calls[i].buf # <<>>

\* C35: at FREE of a decoding armor filter, 'no valid OpenPGP data found' is
\* reported iff the input was not bypassed and no armored data at all was
\* decoded during the session; it is never reported for a stream from which
\* armored bytes were decoded and delivered, and FREE returns no error
\* either way.
C35_NoValidDataIffNothingDecoded ==
    pc = "freed" =>
        (NoValidDataReported <=> (afx.inp_bypass = 0 /\ ~ArmoredBytesDelivered))

\* an armored body of three bytes with no CRC line behind it: the first call
\* has returned the three bytes, the second one the EOF, and the FREE has
\* reported that there is no valid data
C35_Witness ==
    /\ pc = "freed"
    /\ src = <<0, 0, 0>>
    /\ chain = <<>>
    /\ Len(calls) = 2
    /\ calls[1].rc = "0"
    /\ calls[1].buf = src
    /\ calls[2].rc = "-1"
    /\ NoValidDataReported

(***************************************************************************)
(* The two buffers read_list writes through, as its one caller declares    *)
(* them.                                                                   *)
(***************************************************************************)
KEY_SIZE == 41        \* char key[41]

COUNTRY_SIZE == 2     \* char country[2]

\* the bytes of KEY the last call of read_list has written: the characters
\* and the NUL behind them
KeyBytesWritten == Len(ql.key) + 1

\* the bytes of COUNTRY the last call of read_list has written
CountryBytesWritten == Len(ql.country) + 1

\* C36: every write read_list makes through its KEY and COUNTRY arguments
\* stays inside the caller's buffer: at most 41 bytes into KEY and at most 3
\* bytes into COUNTRY, and every caller of read_list passes buffers of at
\* least those sizes.
C36_WritesInsideBuffers ==
    ql # NULL =>
        /\ KeyBytesWritten <= 41
        /\ CountryBytesWritten <= 3
        /\ KeyBytesWritten <= KEY_SIZE
        /\ CountryBytesWritten <= COUNTRY_SIZE
        /\ ~ql.smashed

\* read_list has stored a country code and its NUL, three bytes, and the
\* build that guards its stack has ended the process
C36_Witness ==
    /\ ql # NULL
    /\ ql.country = <<100, 101>>
    /\ CountryBytesWritten = 3
    /\ ql.build = "guard"
    /\ ql.smashed
    /\ pc = "abort"

(***************************************************************************)
(* The result of a run of the sequencer.                                   *)
(***************************************************************************)
\* parse_packet has delivered the i-th packet and the mode forbids its type
ForbiddenAt(i) ==
    /\ seen[i].rc = "0"
    /\ \/ SigsOnlyMode /\ seen[i].pkttype \in SigsOnlyRejectTypes
       \/ EncryptOnlyMode /\ seen[i].pkttype \in EncryptOnlyRejectTypes

ForbiddenMet == \E i \in 1..Len(seen) : ForbiddenAt(i)

\* parse_packet has reported an invalid packet
InvalidPacketMet == \E i \in 1..Len(seen) : seen[i].rc = G10ERR_INVALID_PACKET

\* C37: the result of a sequencer run is Unexpected exactly when a packet
\* forbidden in the current mode was met, and 0 (success) in every other
\* case; in particular a stream abandoned because parse_packet reported
\* InvalidPacket returns the same result 0 as a stream read to a clean EOF.
C37_UnexpectedOrZero ==
    /\ pc = "done" => rc = IF ForbiddenMet THEN G10ERR_UNEXPECTED ELSE "0"
    /\ pc = "run" => ~ForbiddenMet /\ ~InvalidPacketMet

\* proc_packets has read a user ID and then an invalid packet, with one
\* more packet behind it, and has returned 0
C37_Witness ==
    /\ pc = "done"
    /\ FullMode
    /\ Len(seen) = 2
    /\ seen[1].pkttype = "PKT_USER_ID"
    /\ seen[2].rc = G10ERR_INVALID_PACKET
    /\ pkts # <<>>
    /\ rc = "0"

(***************************************************************************)
(* The payload of the faked literal packet and the sizes of the buffers:   *)
(* the run is compared with the run on the same input in which every       *)
(* buffer has the minimal size.                                            *)
(***************************************************************************)
MaxRefCalls == 6    \* most calls of the run with minimal buffers

\* the header lines the input was built with
GivenHeader ==
    CHOOSE h \in ClearHeaders :
        /\ (afx.not_dash_escaped # 0) <=> HasAt(h, 1, NotDashEscapedTag)
        /\ (afx.hashes # 0) <=> HasAt(h, 1, HashTag)

\* one UNDERFLOW call of the run with minimal buffers
RefCall(s) ==
    armor_underflow([afx |-> s.afx, pos |-> 1, log |-> <<>>, halt |-> "", rc |-> "0",
                     buf |-> <<>>, flag |-> FALSE],
                    s.chain, MIN_UNDERFLOW_SIZE, 0)

RefAfter(s, f) ==
    IF f.halt # "" \/ f.rc # "0" THEN [s EXCEPT !.done = TRUE]
    ELSE [afx |-> f.afx,
          chain |-> SubSeq(s.chain, f.pos, Len(s.chain)),
          payload |-> IF s.afx.faked # 0 THEN s.payload \o ChunkText(f) ELSE s.payload,
          done |-> s.afx.faked # 0 /\ f.afx.faked = 0]

RefStep(s) == IF s.done THEN s ELSE RefAfter(s, RefCall(s))

\* the payload of the faked literal packet when every buffer has 75 bytes
RefPayload(input) ==
    Loop(RefStep, [afx |-> NewAfx(0, 0), chain |-> input, payload |-> <<>>, done |-> FALSE],
         MaxRefCalls).payload

\* C38: chunk independence of the clearsigned body: for a fixed clearsigned
\* input, the concatenation of the payloads of all chunks fake_packet
\* returns (each chunk without its two-byte length header) is the same byte
\* sequence for every sequence of UNDERFLOW buffer sizes at or above the
\* 75-byte minimum; no line is split by an inserted CR LF and no CR LF is
\* emitted twice when a chunk fills up.
C38_ChunkIndependent ==
    TextEnded =>
        /\ Payload = RefPayload(ClearSigned(GivenHeader, src))
        /\ Payload = SubSeq(CanonicalLines(src), 1, Len(CanonicalLines(src)) - 2)

\* a line of 71 letters and a second line: the text has come through
\* buffers of 75, 76 and 75 bytes with the first line whole and a CR LF
\* twice behind it, where the buffers of 75 bytes split the line after 70
\* letters
C38_Witness ==
    /\ TextEnded
    /\ src = TextOf(<<LongLine(71), <<45, 32, 45, 99>>>>)
    /\ GivenHeader = <<>>
    /\ Len(calls) = 3
    /\ calls[2].size = MIN_UNDERFLOW_SIZE + 1
    /\ SubSeq(Payload, 71, 75) = <<LongLine(71)[71], CR, LF, CR, LF>>
    /\ SubSeq(RefPayload(ClearSigned(GivenHeader, src)), 71, 74) = <<CR, LF, LongLine(71)[71], CR>>

(***************************************************************************)
(* SpecMulti: streams of one to MaxMultiMsgs one-pass-signed messages, one *)
(* after another, through the three entry points.  A message is a          *)
(* OnePassSig, the Plaintext and the Signature, made with SHA1 or MD5; the *)
(* signature is good or bad.                                               *)
(***************************************************************************)
MaxMultiMsgs == 2     \* most messages of a stream

SignedMsgs ==
    {<<[DefaultPkt("PKT_ONEPASS_SIG") EXCEPT !.digest_algo = a],
       DefaultPkt("PKT_PLAINTEXT"),
       [DefaultPkt("PKT_SIGNATURE") EXCEPT !.digest_algo = a, !.res = r]>> :
        a \in {DIGEST_ALGO_SHA1, DIGEST_ALGO_MD5}, r \in {"0", G10ERR_BAD_SIGN}}

MultiStreams == {Concat(ms) : ms \in SeqsUpTo(SignedMsgs, MaxMultiMsgs) \ {<<>>}}

InitMulti ==
    InitSeq({Opt(FALSE, FALSE, FALSE)},
            {proc_packets, proc_signature_packets, proc_encryption_packets},
            MultiStreams)

NextMulti ==
    \/ ParseEof
    \/ DispatchSigsOnly
    \/ DispatchEncryptOnly
    \/ DispatchFull

SpecMulti == InitMulti /\ [][NextMulti]_vars

\* the Plaintext of the message the i-th packet belongs to: the last one
\* before it in the stream
OwnPlaintext(i) ==
    CHOOSE j \in 1..i : seen[j].pkttype = "PKT_PLAINTEXT"
                        /\ \A k \in (j + 1)..i : seen[k].pkttype # "PKT_PLAINTEXT"

\* log entry k is the check of a signature against a digest context
IsSignatureCheck(k) == log[k].ev = "signature_check"

\* the packets that have gone through a digest context
HashedPackets(md) == {md[1].data[i].no : i \in 1..Len(md[1].data)}

\* C39: each Signature of a one-pass-signed message is verified against the
\* digest of the Plaintext packet of its own message: when one stream holds
\* several signed messages one after another (OnePassSig, Plaintext,
\* Signature, OnePassSig, Plaintext, Signature, ...), no signature is checked
\* against a digest computed over the plaintext of a different message.
C39_OwnPlaintextDigest ==
    \A k \in 1..Len(log) :
        IsSignatureCheck(k) => HashedPackets(log[k].arg) = {OwnPlaintext(log[k].no)}

\* two messages: the signature of the first one, packet 3, has been checked
\* against the digest of packet 5, the Plaintext of the second one
C39_Witness ==
    /\ pc = "done"
    /\ Len(seen) = 6
    /\ \E k \in 1..Len(log) :
          /\ IsSignatureCheck(k)
          /\ log[k].no = 3
          /\ HashedPackets(log[k].arg) = {5}

\* log entry k is a call of hash_datafiles; its argument is the text mode
IsHashDatafiles(k) == log[k].ev = "hash_datafiles"

\* the signature a released list is verified for: its first Signature node
SigOfTree(node) == node[find_next_kbnode(node, 0, "PKT_SIGNATURE")]

\* the list released last is a detached signature: it holds a Signature and
\* no Plaintext has been seen
DetachedSigReleased ==
    /\ trees # <<>>
    /\ find_next_kbnode(trees[Len(trees)], 0, "PKT_SIGNATURE") # 0
    /\ \A i \in 1..Len(seen) : seen[i].pkttype # "PKT_PLAINTEXT"

\* C40: in sigs-only verification of a detached signature (no Plaintext
\* seen), hash_datafiles is asked to hash the data files in text mode iff the
\* signature being verified has class 0x01, the same for a list headed by a
\* OnePassSig as for a list headed by an old-style Signature.
C40_TextModeIffClass01 ==
    DetachedSigReleased =>
        \A k \in 1..Len(log) :
            IsHashDatafiles(k) =>
                (log[k].arg <=> SigOfTree(trees[Len(trees)]).sig_class = 1)

\* a OnePassSig and a Signature of class 0x01 through proc_signature_packets:
\* the data files have been hashed in binary mode
C40_Witness ==
    /\ pc = "done"
    /\ Len(seen) = 2
    /\ seen[1].pkttype = "PKT_ONEPASS_SIG"
    /\ seen[2].pkttype = "PKT_SIGNATURE" /\ seen[2].sig_class = 1
    /\ \E k \in 1..Len(log) : IsHashDatafiles(k) /\ log[k].arg = FALSE

====
